---------------------------- MODULE Spec2Model ----------------------------
(***************************************************************************)
(* Model of the SolTip bots-server command processor                       *)
(* (src/src/commands/processor.ts) and of the Telegram transport           *)
(* (src/src/bots/telegram.ts): the private-key export flow with its        *)
(* verification-code registry, expiry timers and self-destructing replies, *)
(* and the wallet commands send, tip, register and connect with the        *)
(* Ledger Client (src/src/blockchain/solana-service.ts) behind them.       *)
(*                                                                         *)
(* Texts are TLA+ strings; TLC evaluates Len, SubSeq and \o on them, so    *)
(* the string functions of the code are modelled character by character.   *)
(***************************************************************************)
EXTENDS Integers, Sequences, FiniteSets, Bags, TLC

(***************************************************************************)
(* Bounds of the model                                                     *)
(***************************************************************************)
\* number of processCommand invocations that may be suspended at an await
MaxInFlight == 2
\* number of challenges issued in one behaviour
MaxIssues == 2

(***************************************************************************)
(* Configuration (process.env) and the domains of the inputs               *)
(***************************************************************************)
TWITTER_BOT_USERNAME == "tw"
TELEGRAM_BOT_USERNAME == "tg"
DISCORD_BOT_ID == "42"

Platforms == {"twitter", "telegram", "discord"}
Senders == {"alice"}
ChatTypes == {"private", "group"}

\* the values crypto.randomInt is sampled at
CodeSamples == {100000, 100001, 999999}

ExportKeyword == "export-privatekey"

\* raw message texts the events carry
Texts ==
  { "export-privatekey", "/export-privatekey", "Export-PrivateKey", "@tg export-privatekey",
    "@tg Export-PrivateKey", "export-privatekey 100000", "export-privatekey 100001",
    "/export-privatekey 100000", "Export-PrivateKey 100000", "@tg Export-PrivateKey 100000",
    "@tg Export-PrivateKey 100001", "export-privatekey confirm", "export-privatekey 12345",
    "/export-privatekey-confirm", "<@42> export-privatekey", "<@42> export-privatekey 100000",
    "help", "/help", "<@42> HELP", "@tg", "", "gm" }

(***************************************************************************)
(* String functions of the JavaScript runtime                              *)
(***************************************************************************)
Char(s, i) == SubSeq(s, i, i)

\* String.prototype.startsWith
StartsWith(s, p) == Len(s) >= Len(p) /\ SubSeq(s, 1, Len(p)) = p

\* String.prototype.includes
Includes(s, p) ==
  \E i \in 1..(Len(s) + 1) : i + Len(p) - 1 <= Len(s) /\ SubSeq(s, i, i + Len(p) - 1) = p

\* String.prototype.substring(1)
Substring1(s) == SubSeq(s, 2, Len(s))

WhiteSpace == {" ", "\t", "\n"}

RECURSIVE TrimStart(_)
TrimStart(s) ==
  IF Len(s) > 0 /\ Char(s, 1) \in WhiteSpace THEN TrimStart(SubSeq(s, 2, Len(s))) ELSE s

RECURSIVE TrimEnd(_)
TrimEnd(s) ==
  IF Len(s) > 0 /\ Char(s, Len(s)) \in WhiteSpace THEN TrimEnd(SubSeq(s, 1, Len(s) - 1)) ELSE s

\* String.prototype.trim
Trim(s) == TrimEnd(TrimStart(s))

\* s.split(/\s+/): the pieces between maximal runs of white space; cur is the
\* piece being read and inWs tells that the last character read was white space
RECURSIVE SplitFrom(_, _, _, _)
SplitFrom(s, i, cur, inWs) ==
  IF i > Len(s) THEN <<cur>>
  ELSE IF Char(s, i) \in WhiteSpace
       THEN IF inWs THEN SplitFrom(s, i + 1, cur, TRUE)
                    ELSE <<cur>> \o SplitFrom(s, i + 1, "", TRUE)
       ELSE SplitFrom(s, i + 1, cur \o Char(s, i), FALSE)

SplitWs(s) == SplitFrom(s, 1, "", FALSE)

\* s.split(' ').slice(1).join(' '): everything after the first space
RECURSIVE AfterFirstSpace(_)
AfterFirstSpace(s) ==
  IF Len(s) = 0 THEN ""
  ELSE IF Char(s, 1) = " " THEN SubSeq(s, 2, Len(s))
  ELSE AfterFirstSpace(SubSeq(s, 2, Len(s)))

UpperCase == "ABCDEFGHIJKLMNOPQRSTUVWXYZ"
LowerCase == "abcdefghijklmnopqrstuvwxyz"

LowerChar(c) ==
  IF \E i \in 1..Len(UpperCase) : Char(UpperCase, i) = c
  THEN Char(LowerCase, CHOOSE i \in 1..Len(UpperCase) : Char(UpperCase, i) = c)
  ELSE c

\* String.prototype.toLowerCase
RECURSIVE ToLowerCase(_)
ToLowerCase(s) ==
  IF Len(s) = 0 THEN "" ELSE LowerChar(Char(s, 1)) \o ToLowerCase(SubSeq(s, 2, Len(s)))

Digits == "0123456789"
IsDigit(c) == \E i \in 1..Len(Digits) : Char(Digits, i) = c

\* /^\d{6}$/.test
IsSixDigits(s) == Len(s) = 6 /\ \A i \in 1..6 : IsDigit(Char(s, i))

\* Number.prototype.toString for a non-negative integer
RECURSIVE NumberToString(_)
NumberToString(n) ==
  IF n < 10 THEN Char(Digits, n + 1)
  ELSE NumberToString(n \div 10) \o Char(Digits, (n % 10) + 1)

\* crypto.randomInt(min, max): an integer n with min <= n < max
RandomInt(min, max) == {n \in CodeSamples : min <= n /\ n < max}

(***************************************************************************)
(* Map<string, string>                                                     *)
(***************************************************************************)
MapHas(m, k) == k \in DOMAIN m
MapSet(m, k, v) == [x \in (DOMAIN m) \cup {k} |-> IF x = k THEN v ELSE m[x]]
MapDelete(m, k) == [x \in (DOMAIN m) \ {k} |-> m[x]]
EmptyMap == [x \in {} |-> ""]


(***************************************************************************)
(* Reply texts (shortened, with the phrases the code tests for kept)       *)
(***************************************************************************)
ReplyNoCommand == "Please enter a command."
ReplyTelegramOnly == "For security reasons, this command is only available in private messages on Telegram."
ReplyExpired == "Verification code expired or not found."
ReplyInvalidCode == "Invalid verification code."
ReplyNeedWallet == "You need to connect your wallet first."
ReplyExportError == "An error occurred while trying to export your private key."
ReplyUnknown == "Unknown command."
ReplyHelp == "Available Commands"
ReplyPrivateKey(privateKey) == "Your private key is: " \o privateKey
ReplyExportFailed(error) ==
  "Failed to export private key: " \o (IF error = "" THEN "Unknown error" ELSE error)
ReplyChallenge(code) == "SECURITY WARNING Your verification code is: " \o code
ReplyPrivateOnly == "For security reasons, private key export is only available in private conversations with the bot."
ReplySorry == "Sorry, something went wrong processing your request."
ReplyDeleted == "The private key message has been automatically deleted for security reasons."
PrivateKeyMarker == "Your private key is:"

(***************************************************************************)
(* processCommand: normalization and routing                               *)
(***************************************************************************)
\* the three configured mention forms
MentionForms ==
  {"@" \o TWITTER_BOT_USERNAME, "@" \o TELEGRAM_BOT_USERNAME, "<@" \o DISCORD_BOT_ID \o ">"}

\* a filter that knows the Telegram mention only
IsMentionTelegramOnly(w) == Includes(w, "@" \o TELEGRAM_BOT_USERNAME)

\* w.includes(...) for one of the three forms
IsMention(w) == \E m \in MentionForms : Includes(w, m)

\* words.filter(w => !w.includes(...) && ...)
RECURSIVE CleanWords(_)
CleanWords(words) ==
  IF words = <<>> THEN <<>>
  ELSE IF IsMention(Head(words)) THEN CleanWords(Tail(words))
  ELSE <<Head(words)>> \o CleanWords(Tail(words))

\* cleanWords[0]?.toLowerCase(), "" standing for undefined (both are falsy)
Command(cleanWords) == IF cleanWords = <<>> THEN "" ELSE ToLowerCase(cleanWords[1])

\* the registry key `${platform}:${senderUsername}`
RegistryKey(platform, sender) == platform \o ":" \o sender

\* a platform test that lets every platform through
PlatformRefusedNever(platform) == FALSE

\* platform !== 'telegram'
PlatformRefused(platform) == platform # "telegram"

\* a comparison that rejects every code
CodeMismatchAlways(providedCode, expectedCode) == TRUE

\* a comparison that accepts any six-digit code
CodeMismatchNever(providedCode, expectedCode) == FALSE

\* providedCode !== expectedCode
CodeMismatch(providedCode, expectedCode) == providedCode # expectedCode

\* a match that leaves the code in the registry
CodesAfterMatchKept(codes, key) == codes

\* a match that deletes under a key built with the platform prefix twice
CodesAfterMatchWrongKey(codes, key) == MapDelete(codes, "telegram:" \o key)

\* privateKeyVerificationCodes.delete(key) once the code has matched
CodesAfterMatch(codes, key) == MapDelete(codes, key)

\* an issuance that keeps the code already stored for the key
CodesAfterIssueKeepFirst(codes, key, verificationCode) ==
  IF MapHas(codes, key) THEN codes ELSE MapSet(codes, key, verificationCode)

\* privateKeyVerificationCodes.set(key, verificationCode)
CodesAfterIssue(codes, key, verificationCode) == MapSet(codes, key, verificationCode)

\* an expiry timer that removes nothing
CodesAfterExpiryKept(codes, key) == codes

\* the body of the expiry timer: privateKeyVerificationCodes.delete(key)
CodesAfterExpiry(codes, key) == MapDelete(codes, key)

Return(command, reply) ==
  [next |-> "return", command |-> command, reply |-> reply, providedCode |-> "",
   expectedCode |-> ""]

Suspend(command, pc, providedCode, expectedCode) ==
  [next |-> pc, command |-> command, reply |-> "", providedCode |-> providedCode,
   expectedCode |-> expectedCode]

\* the part of processCommand that reads the text: the keyword, whether an
\* argument follows the export keyword, and that argument
Parse(text) ==
  LET words == SplitWs(Trim(text))
      cleanWords == CleanWords(words)
      command == Command(cleanWords)
      providedCode == IF Len(cleanWords) >= 2 THEN Trim(cleanWords[2]) ELSE ""
  IN  [command |-> command,
       withArg |-> Len(cleanWords) >= 2 /\ command = ExportKeyword,
       providedCode |-> providedCode,
       sixDigits |-> IsSixDigits(providedCode)]

\* processCommand up to its first await or its return, given the parsed text
\* and the registry, for the texts of Texts (the wallet commands are the
\* subject of LedgerBegin)
Route(p, platform, sender, codes) ==
  LET key == RegistryKey(platform, sender)
      expectedCode == IF MapHas(codes, key) THEN codes[key] ELSE ""
  IN  IF p.command = "" THEN Return(p.command, ReplyNoCommand)
      ELSE IF p.withArg /\ PlatformRefused(platform) THEN Return(p.command, ReplyTelegramOnly)
      ELSE IF p.withArg /\ p.sixDigits
           THEN IF expectedCode = ""
                THEN [Return(p.command, ReplyExpired) EXCEPT !.providedCode = p.providedCode]
                ELSE IF CodeMismatch(p.providedCode, expectedCode)
                THEN [Return(p.command, ReplyInvalidCode)
                        EXCEPT !.providedCode = p.providedCode, !.expectedCode = expectedCode]
                ELSE Suspend(p.command, "verifyWallet", p.providedCode, expectedCode)
      ELSE IF p.command = ExportKeyword
           THEN IF PlatformRefused(platform) THEN Return(p.command, ReplyTelegramOnly)
                ELSE Suspend(p.command, "issueWallet", "", "")
      ELSE IF p.command = "help" THEN Return(p.command, ReplyHelp)
      ELSE Return(p.command, ReplyUnknown)

(***************************************************************************)
(* The Ledger Client                                                       *)
(***************************************************************************)
\* getUserWallet: the public key, or null ("" here, both are falsy) when the
\* service knows no wallet or the request fails (the catch returns null)
GetUserWallet(userId, platform, wallets, reachable) ==
  IF reachable /\ <<platform, userId>> \in DOMAIN wallets THEN wallets[<<platform, userId>>] ELSE ""

\* what exportWalletPrivateKey can answer: { success, privateKey?, error? } or a throw
ExportOutcomes ==
  { [kind |-> "success", privateKey |-> "5Kb8", error |-> ""],
    [kind |-> "failure", privateKey |-> "", error |-> ""],
    [kind |-> "failure", privateKey |-> "", error |-> "denied"],
    [kind |-> "throw", privateKey |-> "", error |-> ""] }

\* the reply of processCommand for an answer of exportWalletPrivateKey
ExportReply(outcome) ==
  IF outcome.kind = "throw" THEN ReplyExportError
  ELSE IF outcome.kind = "success" THEN ReplyPrivateKey(outcome.privateKey)
  ELSE ReplyExportFailed(outcome.error)

(***************************************************************************)
(* The Telegram transport                                                  *)
(***************************************************************************)
\* normalizeCommand: text.startsWith('/') ? text.substring(1) : text
NormalizeCommand(text) == IF StartsWith(text, "/") THEN Substring1(text) ELSE text

\* bot.on('text'): text.startsWith('export-privatekey') && ctx.chat.type !== 'private'
TextRefused(startsWithExport, chatType) == startsWithExport /\ chatType # "private"

\* bot.mention: text.includes('export-privatekey')
MentionRefused(includesExport, chatType) == includesExport

\* bot.command(cmd): cmd === 'export-privatekey' && ctx.chat.type !== 'private'
CommandRefused(cmd, chatType) == cmd = ExportKeyword /\ chatType # "private"

\* bot.command('export-privatekey-confirm'): ctx.chat.type !== 'private'
ConfirmRefused(chatType) == chatType # "private"

\* the commands of commandHandlers whose processing is modelled
CommandHandlers == {"export-privatekey", "help"}

\* the command word of a message: its text up to the first space
RECURSIVE FirstWord(_)
FirstWord(s) ==
  IF Len(s) = 0 \/ Char(s, 1) = " " THEN "" ELSE Char(s, 1) \o FirstWord(SubSeq(s, 2, Len(s)))

\* the filter of bot.command(cmd): the message is the command /cmd or /cmd@bot
IsCommandMessage(text, cmd) ==
  FirstWord(text) \in {"/" \o cmd, "/" \o cmd \o "@" \o TELEGRAM_BOT_USERNAME}

\* the filter of bot.mention(username): the message mentions @username
IsMentionMessage(text) == Includes(text, "@" \o TELEGRAM_BOT_USERNAME)

\* fullCommand of bot.command(cmd)
FullCommand(cmd, text) ==
  IF Includes(text, " ") THEN cmd \o " " \o AfterFirstSpace(text) ELSE cmd

\* handlePrivateKeyResponse: response.includes('Your private key is:')
IsPrivateKeyResponse(response) == Includes(response, PrivateKeyMarker)

\* the handlers that pass the reply through handlePrivateKeyResponse
UsesHandlePrivateKeyResponse(via) == via \in {"text", "command", "confirm"}

\* the text 'export-privatekey confirm' of bot.command('export-privatekey-confirm')
ConfirmText == "export-privatekey confirm"

\* every text a handler can pass to processCommand
ProcessedTexts ==
  Texts \cup {NormalizeCommand(t) : t \in Texts}
        \cup {FullCommand(cmd, t) : cmd \in CommandHandlers, t \in Texts}
        \cup {ConfirmText}

\* Parse, evaluated once for each text
Parsed == [t \in ProcessedTexts |-> Parse(t)]

\* what the Telegram handlers compute from a raw message, evaluated once
Inbound ==
  [raw \in Texts |->
     LET text == NormalizeCommand(raw)
     IN  [text |-> text,
          textStartsWithExport |-> StartsWith(text, ExportKeyword),
          textIncludesExport |-> Includes(text, ExportKeyword),
          isMention |-> IsMentionMessage(raw),
          commands |-> {cmd \in CommandHandlers : IsCommandMessage(raw, cmd)},
          isConfirm |-> IsCommandMessage(raw, "export-privatekey-confirm"),
          fullCommand |-> [cmd \in CommandHandlers |-> FullCommand(cmd, raw)]]]

(***************************************************************************)
(* State                                                                   *)
(***************************************************************************)
VARIABLES
  privateKeyVerificationCodes, \* the Map from `${platform}:${sender}` to the stored code
  expiryTimers,                \* the pending expiry callbacks, in the order they were set
  inflight,                    \* the bag of processCommand invocations suspended at an await
  remoteWallets,               \* the wallet service: <<platform, user>> |-> public key
  keyMessages,                 \* the Telegram messages that carry an exported private key
  challenges,                  \* history: every challenge issued, in order
  liveIssue,                   \* history: for each registry key, the challenge its entry is
  ledgerCalls,                 \* the bag of processCommand invocations of the wallet commands
  twitter                      \* the Twitter bot: its runs of checkMentions and what they did

vars == <<privateKeyVerificationCodes, expiryTimers, inflight, remoteWallets, keyMessages,
          challenges, liveIssue, ledgerCalls, twitter>>

\* the tweets that mention the bot, in the order they are posted; the search
\* returns those posted so far
Timeline ==
  << [id |-> "1", username |-> "alice", text |-> "@tw send @bob 2 SOL"],
     [id |-> "2", username |-> TWITTER_BOT_USERNAME, text |-> "@alice sent. @tw"],
     [id |-> "", username |-> "alice", text |-> "@tw help"] >>

\* the Twitter bot before start(); posted counts the tweets of Timeline that
\* the search returns; processed, transfers and replies count, for each tweet,
\* the calls of processCommand, their transfer requests and the replies sent
TwitterIdle ==
  [started |-> FALSE, checks |-> 0, posted |-> 0, runs |-> <<>>,
   processed |-> [i \in 1..Len(Timeline) |-> 0],
   transfers |-> [i \in 1..Len(Timeline) |-> 0],
   replies |-> [i \in 1..Len(Timeline) |-> 0]]

\* milliseconds of the two setTimeout calls
ExpiryDelay == 5 * 60 * 1000
SelfDestructDelay == 60 * 1000

Init ==
  /\ privateKeyVerificationCodes = EmptyMap
  /\ expiryTimers = <<>>
  /\ inflight = EmptyBag
  /\ remoteWallets = [id \in Platforms \X Senders |-> "wallet-" \o id[2]]
  /\ keyMessages = <<>>
  /\ challenges = <<>>
  /\ liveIssue = EmptyMap
  /\ ledgerCalls = EmptyBag
  /\ twitter = TwitterIdle

(***************************************************************************)
(* History bookkeeping                                                     *)
(***************************************************************************)
\* the challenge issued last for a key, 0 when none was
LastIssue(key) ==
  LET ids == {i \in 1..Len(challenges) : challenges[i].key = key}
  IN  IF ids = {} THEN 0 ELSE CHOOSE i \in ids : \A j \in ids : j <= i

\* the challenge behind each entry of the registry after a step that set setKey
\* (setKey = "" when the step set nothing)
LiveAfter(codes, setKey, newIssue) ==
  [k \in DOMAIN codes |->
     IF k = setKey THEN newIssue ELSE IF k \in DOMAIN liveIssue THEN liveIssue[k] ELSE 0]

\* the invocations suspended at an await
Suspended == BagToSet(inflight)
Resume(call) == inflight (-) SetToBag({call})
Await(call) == inflight (+) SetToBag({call})
CanSuspend == BagCardinality(inflight) < MaxInFlight

\* challenges issued or about to be
IssueBudgetUsed ==
  LET issuing == {c \in Suspended : c.pc = "issueWallet"}
  IN  Len(challenges) + BagCardinality([c \in issuing |-> inflight[c]])

(***************************************************************************)
(* processCommand                                                          *)
(***************************************************************************)
\* a call of processCommand(text, platform, sender) by the handler via in a
\* chat of type chat: it runs to its first await, or to its return; a reply
\* returned at once changes no state
Begin(via, chat, text, platform, sender) ==
  LET d == Route(Parsed[text], platform, sender, privateKeyVerificationCodes)
      key == RegistryKey(platform, sender)
      call == [pc |-> d.next, via |-> via, chat |-> chat, platform |-> platform,
               sender |-> sender, withArg |-> Parsed[text].withArg,
               providedCode |-> d.providedCode, expectedCode |-> d.expectedCode,
               matched |-> 0, exportCalls |-> 0]
  IN  \/ /\ d.next = "return"
         /\ UNCHANGED vars
      \/ /\ d.next = "verifyWallet"
         /\ CanSuspend
         /\ LET codes == CodesAfterMatch(privateKeyVerificationCodes, key)
                J == liveIssue[key]
            IN  /\ privateKeyVerificationCodes' = codes
                /\ liveIssue' = LiveAfter(codes, "", 0)
                /\ challenges' =
                     [challenges EXCEPT
                        ![J].matches = IF @ < 2 THEN @ + 1 ELSE @,
                        ![J].status = IF MapHas(codes, key) THEN @ ELSE "consumed"]
                /\ inflight' = Await([call EXCEPT !.matched = J])
         /\ UNCHANGED <<expiryTimers, remoteWallets, keyMessages, ledgerCalls, twitter>>
      \/ /\ d.next = "issueWallet"
         /\ CanSuspend
         /\ IssueBudgetUsed < MaxIssues
         /\ inflight' = Await(call)
         /\ UNCHANGED <<privateKeyVerificationCodes, expiryTimers, remoteWallets, keyMessages,
                        challenges, liveIssue, ledgerCalls, twitter>>

\* the await of getUserWallet in the verification branch returns: without a
\* wallet processCommand returns ReplyNeedWallet, with one it calls
\* exportWalletPrivateKey
VerifyWalletLookupReturns(call, reachable) ==
  /\ call.pc = "verifyWallet"
  /\ LET wallet == GetUserWallet(call.sender, call.platform, remoteWallets, reachable)
     IN  IF wallet = ""
         THEN /\ inflight' = Resume(call)
              /\ challenges' = [challenges EXCEPT ![call.matched].outcome = "noWallet"]
         ELSE /\ inflight' = Await([call EXCEPT !.pc = "exporting", !.exportCalls = @ + 1])
                               (-) SetToBag({call})
              /\ UNCHANGED challenges
  /\ UNCHANGED <<privateKeyVerificationCodes, expiryTimers, remoteWallets, keyMessages,
                 liveIssue, ledgerCalls, twitter>>

\* the handlers that reply to a message
TelegramHandlers == {"text", "mention", "command", "confirm"}

\* the handler's step for the reply of processCommand: the messages carrying
\* a key after it; sent tells whether ctx.reply succeeded
KeyMessagesAfterReply(via, reply, carriesKey, sent) ==
  IF via \in TelegramHandlers /\ carriesKey /\ sent
  THEN Append(keyMessages,
              [scheduled |-> UsesHandlePrivateKeyResponse(via) /\ IsPrivateKeyResponse(reply),
               delay |-> SelfDestructDelay, fired |-> FALSE, attempts |-> 0,
               deleted |-> FALSE, notice |-> FALSE])
  ELSE keyMessages

\* exportWalletPrivateKey answers or throws; processCommand returns and the
\* handler sends the reply
ExportReturns(call, outcome, sent) ==
  /\ call.pc = "exporting"
  /\ keyMessages' =
       KeyMessagesAfterReply(call.via, ExportReply(outcome), outcome.kind = "success", sent)
  /\ challenges' = [challenges EXCEPT ![call.matched].outcome = outcome.kind]
  /\ inflight' = Resume(call)
  /\ UNCHANGED <<privateKeyVerificationCodes, expiryTimers, remoteWallets, liveIssue,
                 ledgerCalls, twitter>>

\* an issuance that sets no timer
TimersAfterIssueNone(timers, key, id) == timers

\* setTimeout(() => privateKeyVerificationCodes.delete(key), 5 * 60 * 1000)
TimersAfterIssue(timers, key, id) ==
  Append(timers, [key |-> key, issue |-> id, delay |-> ExpiryDelay])

\* the await of getUserWallet in the issuing branch returns: without a wallet
\* processCommand returns ReplyNeedWallet; with one a code is drawn and
\* stored, its expiry timer is set, and ReplyChallenge(code) is returned
IssueWalletLookupReturns(call, reachable, n) ==
  /\ call.pc = "issueWallet"
  /\ LET key == RegistryKey(call.platform, call.sender)
         wallet == GetUserWallet(call.sender, call.platform, remoteWallets, reachable)
         verificationCode == NumberToString(n)
         codes == CodesAfterIssue(privateKeyVerificationCodes, key, verificationCode)
         id == Len(challenges) + 1
         replaced == IF MapHas(liveIssue, key) /\ MapHas(codes, key) THEN liveIssue[key] ELSE 0
     IN  IF wallet = ""
         THEN UNCHANGED <<privateKeyVerificationCodes, expiryTimers, challenges, liveIssue>>
         ELSE /\ privateKeyVerificationCodes' = codes
              /\ expiryTimers' = TimersAfterIssue(expiryTimers, key, id)
              /\ liveIssue' = LiveAfter(codes, key, id)
              /\ challenges' =
                   Append([i \in 1..Len(challenges) |->
                             IF i = replaced
                             THEN [challenges[i] EXCEPT !.status = "superseded"]
                             ELSE challenges[i]],
                          [key |-> key, code |-> verificationCode, status |-> "live",
                           fired |-> FALSE, matches |-> 0, outcome |-> "",
                           platform |-> call.platform, chat |-> call.chat,
                           withArg |-> call.withArg, replaced |-> replaced,
                           wallet |-> wallet])
  /\ inflight' = Resume(call)
  /\ UNCHANGED <<remoteWallets, keyMessages, ledgerCalls, twitter>>

\* the oldest expiry timer fires (all have the same delay, so they fire in
\* the order they were set)
ExpiryTimerFires ==
  /\ expiryTimers # <<>>
  /\ LET t == Head(expiryTimers)
         codes == CodesAfterExpiry(privateKeyVerificationCodes, t.key)
         removed == MapHas(privateKeyVerificationCodes, t.key) /\ ~MapHas(codes, t.key)
     IN  /\ privateKeyVerificationCodes' = codes
         /\ liveIssue' = LiveAfter(codes, "", 0)
         /\ challenges' =
              [i \in 1..Len(challenges) |->
                 LET c == IF i = t.issue THEN [challenges[i] EXCEPT !.fired = TRUE]
                                         ELSE challenges[i]
                 IN  IF removed /\ liveIssue[t.key] = i
                     THEN [c EXCEPT !.status = IF i = t.issue THEN "expired" ELSE "killed"]
                     ELSE c]
  /\ expiryTimers' = Tail(expiryTimers)
  /\ UNCHANGED <<inflight, remoteWallets, keyMessages, ledgerCalls, twitter>>

(***************************************************************************)
(* Inbound events                                                          *)
(***************************************************************************)
\* a caller invokes processCommand(text, platform, sender)
ProcessCommand(text, platform, sender) == Begin("direct", "", text, platform, sender)

\* a handler answers with ReplyPrivateOnly and returns
Refuse == UNCHANGED vars

\* bot.on('text')
TelegramText(raw, chat, sender) ==
  LET in == Inbound[raw]
  IN  IF TextRefused(in.textStartsWithExport, chat) THEN Refuse
      ELSE Begin("text", chat, in.text, "telegram", sender)

\* bot.mention(TELEGRAM_BOT_USERNAME)
TelegramMention(raw, chat, sender) ==
  LET in == Inbound[raw]
  IN  /\ in.isMention
      /\ IF MentionRefused(in.textIncludesExport, chat) THEN Refuse
         ELSE Begin("mention", chat, in.text, "telegram", sender)

\* bot.command(cmd) for the commands of commandHandlers
TelegramCommand(cmd, raw, chat, sender) ==
  LET in == Inbound[raw]
  IN  /\ cmd \in in.commands
      /\ IF CommandRefused(cmd, chat) THEN Refuse
         ELSE Begin("command", chat, in.fullCommand[cmd], "telegram", sender)

\* bot.command('export-privatekey-confirm')
TelegramConfirm(raw, chat, sender) ==
  /\ Inbound[raw].isConfirm
  /\ IF ConfirmRefused(chat) THEN Refuse
     ELSE Begin("confirm", chat, ConfirmText, "telegram", sender)

(***************************************************************************)
(* The self-destruct timer of handlePrivateKeyResponse                     *)
(***************************************************************************)
\* the oldest pending deletion fires: deleteMessage is attempted; when it
\* succeeds the notice is sent; a throw is caught and logged
SelfDestructTimerFires(deletedOk, noticeOk) ==
  LET pending == {i \in 1..Len(keyMessages) : keyMessages[i].scheduled /\ ~keyMessages[i].fired}
  IN  /\ pending # {}
      /\ LET i == CHOOSE m \in pending : \A j \in pending : m <= j
         IN  keyMessages' =
               [keyMessages EXCEPT ![i] = [@ EXCEPT !.fired = TRUE,
                                                    !.attempts = @ + 1,
                                                    !.deleted = deletedOk,
                                                    !.notice = deletedOk /\ noticeOk]]
      /\ UNCHANGED <<privateKeyVerificationCodes, expiryTimers, inflight, remoteWallets,
                     challenges, liveIssue, ledgerCalls, twitter>>

(***************************************************************************)
(* Numbers of the JavaScript runtime                                       *)
(*                                                                         *)
(* A number is NaN, an infinity, or a finite value kept in millionths (the *)
(* precision of toFixed(6) and of the fee buffer 0.000005); the numerals   *)
(* of the inputs have at most six fraction digits and no exponent.         *)
(***************************************************************************)
MicroPerUnit == 1000000

NaN == [nan |-> TRUE, inf |-> 0, micro |-> 0]
Infinity(sign) == [nan |-> FALSE, inf |-> sign, micro |-> 0]
Finite(micro) == [nan |-> FALSE, inf |-> 0, micro |-> micro]

DigitValue(c) == (CHOOSE i \in 1..Len(Digits) : Char(Digits, i) = c) - 1

\* the run of decimal digits at the start of s
RECURSIVE DigitRun(_)
DigitRun(s) ==
  IF Len(s) > 0 /\ IsDigit(Char(s, 1)) THEN Char(s, 1) \o DigitRun(SubSeq(s, 2, Len(s))) ELSE ""

\* the value of a string of decimal digits
RECURSIVE NatValue(_)
NatValue(d) ==
  IF Len(d) = 0 THEN 0
  ELSE NatValue(SubSeq(d, 1, Len(d) - 1)) * 10 + DigitValue(Char(d, Len(d)))

\* the millionths written by the fraction digits d
FractionMicro(d) == NatValue(SubSeq(d \o "000000", 1, 6))

\* parseFloat: the longest prefix of the trimmed string that is a decimal
\* literal or a signed 'Infinity'; NaN when there is none ("" stands for an
\* undefined argument, which parses to NaN as well)
ParseFloat(s) ==
  LET t == TrimStart(s)
      signed == StartsWith(t, "-") \/ StartsWith(t, "+")
      sign == IF StartsWith(t, "-") THEN -1 ELSE 1
      u == IF signed THEN Substring1(t) ELSE t
      int == DigitRun(u)
      afterInt == SubSeq(u, Len(int) + 1, Len(u))
      frac == IF StartsWith(afterInt, ".") THEN DigitRun(Substring1(afterInt)) ELSE ""
  IN  IF StartsWith(u, "Infinity") THEN Infinity(sign)
      ELSE IF int = "" /\ frac = "" THEN NaN
      ELSE Finite(sign * (NatValue(int) * MicroPerUnit + FractionMicro(frac)))

\* isNaN(x)
IsNaN(x) == x.nan

\* a < b
LessThan(a, b) ==
  /\ ~a.nan /\ ~b.nan
  /\ IF a.inf # 0 \/ b.inf # 0 THEN a.inf < b.inf ELSE a.micro < b.micro

\* x <= 0
LessOrEqualZero(x) == ~x.nan /\ (x.inf = -1 \/ (x.inf = 0 /\ x.micro <= 0))

\* x + y for a finite y given in millionths
Plus(x, micro) == IF x.nan \/ x.inf # 0 THEN x ELSE Finite(x.micro + micro)

\* six digits of a fraction in millionths
PadSix(n) == SubSeq("000000", 1, 6 - Len(NumberToString(n))) \o NumberToString(n)

RECURSIVE TrimTrailingZeros(_)
TrimTrailingZeros(d) ==
  IF Len(d) > 0 /\ Char(d, Len(d)) = "0" THEN TrimTrailingZeros(SubSeq(d, 1, Len(d) - 1)) ELSE d

\* the digits of a non-negative finite value
Magnitude(micro, fixed) ==
  LET int == NumberToString(micro \div MicroPerUnit)
      frac == IF fixed THEN PadSix(micro % MicroPerUnit)
              ELSE TrimTrailingZeros(PadSix(micro % MicroPerUnit))
  IN  IF frac = "" THEN int ELSE int \o "." \o frac

\* `${x}`: Number.prototype.toString
NumberText(x) ==
  IF x.nan THEN "NaN"
  ELSE IF x.inf # 0 THEN (IF x.inf < 0 THEN "-Infinity" ELSE "Infinity")
  ELSE IF x.micro < 0 THEN "-" \o Magnitude(0 - x.micro, FALSE)
  ELSE Magnitude(x.micro, FALSE)

\* x.toFixed(6)
ToFixed6(x) ==
  IF x.nan THEN "NaN"
  ELSE IF x.inf # 0 THEN (IF x.inf < 0 THEN "-Infinity" ELSE "Infinity")
  ELSE IF x.micro < 0 THEN "-" \o Magnitude(0 - x.micro, TRUE)
  ELSE Magnitude(x.micro, TRUE)

UpperChar(c) ==
  IF \E i \in 1..Len(LowerCase) : Char(LowerCase, i) = c
  THEN Char(UpperCase, CHOOSE i \in 1..Len(LowerCase) : Char(LowerCase, i) = c)
  ELSE c

\* String.prototype.toUpperCase
RECURSIVE ToUpperCase(_)
ToUpperCase(s) ==
  IF Len(s) = 0 THEN "" ELSE UpperChar(Char(s, 1)) \o ToUpperCase(SubSeq(s, 2, Len(s)))

\* String.prototype.indexOf, 0 when p does not occur (positions from 1)
IndexOf(s, p) ==
  IF Includes(s, p)
  THEN CHOOSE i \in 1..(Len(s) + 1) :
         /\ i + Len(p) - 1 <= Len(s) /\ SubSeq(s, i, i + Len(p) - 1) = p
         /\ \A j \in 1..(i - 1) : SubSeq(s, j, j + Len(p) - 1) # p
  ELSE 0

\* recipientTag.replace('@', ''): the first '@' is removed
ReplaceFirstAt(s) ==
  LET i == IndexOf(s, "@")
  IN  IF i = 0 THEN s ELSE SubSeq(s, 1, i - 1) \o SubSeq(s, i + 1, Len(s))

(***************************************************************************)
(* processCommand: the wallet commands                                     *)
(***************************************************************************)
LedgerCommands == {"send", "tip", "register", "connect", "balance", "address"}

APP_URL == "https://app"
EXPLORER_URL == "https://explorer/tx"

\* the keys of TOKEN_REGISTRY
TOKEN_REGISTRY == {"SOL", "USDC", "USDT", "BTC", "ETH", "SRM", "BONK"}

\* words, cleanWords and command of processCommand
Normalize(text) ==
  LET words == SplitWs(Trim(text))
      cleanWords == CleanWords(words)
  IN  [words |-> words, cleanWords |-> cleanWords, command |-> Command(cleanWords)]

\* cleanWords[i - 1], "" standing for undefined
Arg(cleanWords, i) == IF Len(cleanWords) >= i THEN cleanWords[i] ELSE ""

\* recipientTag, amount and token of the send branch
SendArgs(cleanWords) ==
  [recipientTag |-> Arg(cleanWords, 2),
   amountText |-> Arg(cleanWords, 3),
   amount |-> ParseFloat(Arg(cleanWords, 3)),
   token |-> IF Arg(cleanWords, 4) = "" THEN "SOL" ELSE ToUpperCase(Arg(cleanWords, 4))]

\* !recipientTag || isNaN(amount) || amount <= 0
SendFormatInvalid(recipientTag, amount) ==
  recipientTag = "" \/ IsNaN(amount) \/ LessOrEqualZero(amount)

\* a wallet test that takes any lookup result for a wallet
NoWalletNever(wallet) == FALSE

\* !senderWallet, !existingWallet
NoWallet(wallet) == wallet = ""

\* stands for the cross mark that opens the error replies of send
CrossMark == "(x) "

ReplyInvalidFormat == "Invalid format. Use: send @recipient amount token"
ReplyConnectFirst ==
  "You need to connect your wallet first. Use 'connect YOUR_WALLET_ADDRESS' or visit "
    \o APP_URL \o " to get started."

\* the sentence appended when result.walletCreated
WalletCreatedNotice(recipientUsername) ==
  " A new wallet was automatically created for @" \o recipientUsername \o "."

\* a reply that carries the notice whatever the result says
NoticeAddedAlways(walletCreated) == TRUE

\* if (result.walletCreated)
NoticeAdded(walletCreated) == walletCreated

\* the success message of send
ReplySent(amount, token, recipientUsername, result) ==
  "Successfully sent " \o NumberText(amount) \o " " \o token \o " to @" \o recipientUsername
    \o "!"
    \o (IF NoticeAdded(result.walletCreated) THEN WalletCreatedNotice(recipientUsername) ELSE "")
    \o " Transaction: " \o EXPLORER_URL \o "/" \o result.signature

\* the catch of the send branch: the reply for error.message
SendErrorReply(token, message) ==
  IF Includes(message, "Insufficient funds") \/ Includes(message, "Insufficient SOL")
  THEN CrossMark \o message
  ELSE IF Includes(message, "No wallet found") THEN CrossMark \o message
  ELSE CrossMark \o "Failed to send " \o token \o ". " \o message

ReplyAlreadyRegistered(existingWallet) ==
  "You already have a wallet with address: " \o existingWallet
    \o ". Use 'balance' to check your balance."
ReplyWelcome(newWalletAddress) ==
  "Welcome to SolBreakout! A new custodial wallet has been created for you: "
    \o newWalletAddress
ReplyRegisterFailed(message) ==
  "Failed to register: " \o message \o ". Please try again later."

ReplyBalance(balance) == "Your SOL balance is " \o NumberText(balance) \o " SOL"
ReplyBalanceFailed(message) == "Failed to get balance. Error: " \o message
ReplyAddress(userWallet) == "Your wallet address is: " \o userWallet

ReplyConnectFormat == "Invalid format. Use: connect YOUR_WALLET_ADDRESS"
ReplyInvalidAddress ==
  "Invalid wallet address format. Please provide a valid Solana wallet address."
ReplyAlreadyConnected(existingWallet) ==
  "You already have a connected wallet with address: " \o existingWallet
ReplyConnected(walletAddress, platform) ==
  "Successfully connected wallet " \o walletAddress \o " to your " \o platform \o " account."
ReplyConnectFailed == "Failed to connect wallet. Please try again later or contact support."

\* the position of the character c in an alphabet, 0 when it is not in it
Position(c, alphabet) ==
  IF \E i \in 1..Len(alphabet) : Char(alphabet, i) = c
  THEN CHOOSE i \in 1..Len(alphabet) : Char(alphabet, i) = c
  ELSE 0

\* c is in the character range lo-hi of a regular expression
InRange(c, alphabet, lo, hi) ==
  /\ Position(c, alphabet) # 0
  /\ Position(lo, alphabet) <= Position(c, alphabet)
  /\ Position(c, alphabet) <= Position(hi, alphabet)

\* the character class [1-9A-HJ-NP-Za-km-z]
IsBase58Char(c) ==
  \/ InRange(c, Digits, "1", "9")
  \/ InRange(c, UpperCase, "A", "H") \/ InRange(c, UpperCase, "J", "N")
  \/ InRange(c, UpperCase, "P", "Z")
  \/ InRange(c, LowerCase, "a", "k") \/ InRange(c, LowerCase, "m", "z")

\* an address test without the bounds on the length
IsBase58AddressAnyLength(s) == Len(s) >= 1 /\ \A i \in 1..Len(s) : IsBase58Char(Char(s, i))

\* /^[1-9A-HJ-NP-Za-km-z]{32,44}$/.test
IsBase58Address(s) ==
  /\ 32 <= Len(s) /\ Len(s) <= 44
  /\ \A i \in 1..Len(s) : IsBase58Char(Char(s, i))

(***************************************************************************)
(* The Ledger Client: executeTransaction and the wallet endpoints          *)
(***************************************************************************)
\* an Error thrown by the code, and an error of the HTTP client that carries
\* the response of the service
NewError(message) ==
  [message |-> message, hasResponse |-> FALSE, dataMessage |-> "", dataError |-> ""]
HttpError(status, dataMessage, dataError) ==
  [message |-> "Request failed with status code " \o status, hasResponse |-> TRUE,
   dataMessage |-> dataMessage, dataError |-> dataError]
TransportError == NewError("timeout of 10000ms exceeded")

InsolvencyPattern == "Attempt to debit an account but found no record of a prior credit"

\* the parameter checks at the head of executeTransaction: the message
\* thrown, "" when they pass
TransactionInputError(senderUsername, recipientUsername, amount) ==
  IF senderUsername = "" THEN "Sender username is required"
  ELSE IF recipientUsername = "" THEN "Recipient username is required"
  ELSE IF LessOrEqualZero(amount) THEN "Amount must be a positive number"
  ELSE ""

NoWalletFoundMessage(senderUsername) ==
  "No wallet found for sender " \o senderUsername
    \o ". Please register or connect a wallet first."

\* the buffer for transaction fees, 0.000005 SOL
FeeBufferMicro == 5
RequiredAmount(amount) == Plus(amount, FeeBufferMicro)

InsufficientFundsMessage(senderBalance, requiredAmount) ==
  "Insufficient funds. You have " \o ToFixed6(senderBalance) \o " SOL but need at least "
    \o ToFixed6(requiredAmount) \o " SOL (including fees)."

\* a balance test that never finds the balance short
BalanceShortNever(senderBalance, requiredAmount) == FALSE

\* senderBalance < requiredAmount
BalanceShort(senderBalance, requiredAmount) == LessThan(senderBalance, requiredAmount)

\* getTokenInfo: does TOKEN_REGISTRY[upperSymbol] exist
TokenKnown(tokenSymbol) == ToUpperCase(tokenSymbol) \in TOKEN_REGISTRY
TokenNotSupportedMessage(tokenSymbol) ==
  "Token '" \o tokenSymbol \o "' is not supported. Available tokens: SOL, USDC, USDT, BTC, ETH, SRM, BONK"

Alnum == Digits \o UpperCase \o LowerCase

RECURSIVE AlnumRun(_)
AlnumRun(s) ==
  IF Len(s) > 0 /\ Position(Char(s, 1), Alnum) # 0
  THEN Char(s, 1) \o AlnumRun(SubSeq(s, 2, Len(s)))
  ELSE ""

\* responseText.match(/signature: ([a-zA-Z0-9]+)/), "SUCCESS" without a match
Signature(responseText) ==
  LET i == IndexOf(responseText, "signature: ")
      run == IF i = 0 THEN ""
             ELSE AlnumRun(SubSeq(responseText, i + Len("signature: "), Len(responseText)))
  IN  IF run = "" THEN "SUCCESS" ELSE run

\* { signature, walletCreated } read from the text of the transfer response
TransferResult(responseText) ==
  [signature |-> Signature(responseText),
   walletCreated |-> Includes(responseText, "A new wallet was created")]

\* the catch of the SOL branch
SolBranchCatch(error) ==
  IF Includes(error.message, InsolvencyPattern)
  THEN NewError("Insufficient funds in sender wallet")
  ELSE error

\* the catch of the token branch: whatever was thrown
TokenBranchCatch(error, token) ==
  NewError("Unknown token: " \o token \o ". Please use a supported token symbol.")

\* serverMessage.match(/Transaction simulation failed: (.+?)\./), "" without a match
SimulationError(serverMessage) ==
  LET prefix == "Transaction simulation failed: "
      i == IndexOf(serverMessage, prefix)
      rest == IF i = 0 THEN "" ELSE SubSeq(serverMessage, i + Len(prefix), Len(serverMessage))
      dot == IndexOf(SubSeq(rest, 2, Len(rest)), ".")
  IN  IF i = 0 \/ dot = 0 THEN "" ELSE SubSeq(rest, 1, dot)

\* the outer catch of executeTransaction: the message of the Error it throws
OuterCatch(error) ==
  IF error.hasResponse /\ error.dataMessage # ""
  THEN IF Includes(error.dataMessage, InsolvencyPattern)
       THEN "Insufficient SOL in wallet to complete the transaction"
       ELSE IF /\ Includes(error.dataMessage, "Transaction simulation failed")
               /\ Includes(error.dataMessage, "would exceed maximum allowed stake delegation")
       THEN "Transaction would exceed maximum allowed stake delegation"
       ELSE IF /\ Includes(error.dataMessage, "Transaction simulation failed")
               /\ SimulationError(error.dataMessage) # ""
       THEN "Transaction failed: " \o SimulationError(error.dataMessage)
       ELSE "Transaction failed: " \o error.dataMessage
  ELSE IF error.hasResponse /\ error.dataError # ""
  THEN "Transaction failed: " \o error.dataError
  ELSE IF error.message # ""
  THEN IF Includes(error.message, "Insufficient funds") THEN error.message
       ELSE IF Includes(error.message, "No wallet found") THEN error.message
       ELSE "Transaction failed: " \o error.message
  ELSE "Transaction failed due to an unknown error"

\* what executeTransaction throws for an error raised in the branch of token
TransactionError(error, token) ==
  OuterCatch(IF ToUpperCase(token) = "SOL" THEN SolBranchCatch(error)
             ELSE TokenBranchCatch(error, token))

(***************************************************************************)
(* The wallet commands as a state machine                                  *)
(***************************************************************************)
\* the platform the wallet commands arrive on
LedgerPlatforms == {"discord"}


\* raw message texts that carry a wallet command
LedgerTexts ==
  { "@tw send @bob 2 SOL", "x@tgy  tip @bob 0.000001", "Send @bob 2 usdc", "send @bob 2 FOO",
    "send @ 1", "send", "send @bob", "send @bob abc", "send @bob 0", "send @bob -1",
    "send @bob NaN", "send @bob -Infinity", "send @bob Infinity", "tip b@ob 2 usdc",
    "send @bob<@42> 2 SOL",
    "balance", "address",
    "register", "<@42> Register",
    "connect", "connect notABase58Addr!!",
    "connect 4Nd1mBQtrMJVYVfKf2PJy9NZUZdTAsp7",
    "connect 7xKXtg2CW87d97TXJSDpbD5jBkheTqA83TZRuJosgAsU",
    "connect 4Nd1mBQtrMJVYVfKf2PJy9NZUZdTAsp",
    "connect 7xKXtg2CW87d97TXJSDpbD5jBkheTqA83TZRuJosgAsU9",
    "connect 4Nd1mBQtrMJVYVfKf2PJy9NZUZdTAsp0", "connect 4Nd1mBQtrMJVYVfKf2PJy9NZUZdTAspl",
    "connect 4Nd1mBQtrMJVYVfKf2PJy9NZUZdTAspI", "connect 4Nd1mBQtrMJVYVfKf2PJy9NZUZdTAspO",
    "@tw @tg <@42>", "" }

\* what processCommand reads from a text, evaluated once for each text (the
\* merge with the empty function makes the table explicit)
LedgerParsed ==
  [text \in LedgerTexts |->
     LET n == Normalize(text)
         a == SendArgs(n.cleanWords)
     IN  [words |-> n.words, cleanWords |-> n.cleanWords, command |-> n.command,
          recipientTag |-> a.recipientTag, amountText |-> a.amountText, amount |-> a.amount,
          token |-> a.token, recipientUsername |-> ReplaceFirstAt(a.recipientTag),
          walletAddress |-> Arg(n.cleanWords, 2)]] @@ <<>>

\* number of invocations of a wallet command that may be in progress
MaxLedgerInFlight == 1

\* the numerals the balance endpoint answers with
BalanceTexts == {"0.000004", "0.000006", "2.000004", "2.000005"}

\* how a request to the balance endpoint can end
BalanceOutcomes ==
  [kind : {"ok"}, text : BalanceTexts]
    \cup {[kind |-> "unparsable", text |-> ""], [kind |-> "transport", text |-> ""]}

\* how a request to a transfer endpoint can end
TransferOutcomes ==
  { [kind |-> "ok", signed |-> TRUE, error |-> NewError("")],
    [kind |-> "ok", signed |-> FALSE, error |-> NewError("")],
    [kind |-> "malformed", signed |-> FALSE,
     error |-> NewError("Invalid response format from server")],
    [kind |-> "rejected", signed |-> FALSE,
     error |-> HttpError("500", "Transaction simulation failed: " \o InsolvencyPattern \o ".", "")],
    [kind |-> "rejected", signed |-> FALSE,
     error |-> HttpError("500", "Transaction simulation failed: Blockhash not found. Retry", "")],
    [kind |-> "rejected", signed |-> FALSE, error |-> HttpError("500", "", "internal")],
    [kind |-> "transport", signed |-> FALSE, error |-> TransportError] }

\* the text of a successful transfer response
TransferResponseText(created, signed) ==
  "Sent." \o (IF created THEN " A new wallet was created for the recipient." ELSE "")
          \o (IF signed THEN " signature: 5Sig9" ELSE "")

\* how a request to the get-or-create and link endpoints can end
WalletOutcomes == {"success", "invalid", "transport"}

\* the public keys the service gives to the wallets it creates
CustodialAddresses == {"CustodialA", "CustodialB"}

\* the service links a wallet to an identity that has none
LinkAccepted(wallets, id) == id \notin DOMAIN wallets

InitLedger ==
  /\ privateKeyVerificationCodes = EmptyMap
  /\ expiryTimers = <<>>
  /\ inflight = EmptyBag
  /\ remoteWallets = EmptyMap
  /\ keyMessages = <<>>
  /\ challenges = <<>>
  /\ liveIssue = EmptyMap
  /\ ledgerCalls = EmptyBag
  /\ twitter = TwitterIdle

\* the variables the wallet commands leave alone
exportVars == <<privateKeyVerificationCodes, expiryTimers, inflight, keyMessages, challenges,
                liveIssue, twitter>>

\* the invocations of a wallet command in progress
LedgerInvocations == BagToSet(ledgerCalls)

\* the invocation call goes on as next
LedgerStep(call, next) == ledgerCalls' = (ledgerCalls (-) SetToBag({call})) (+) SetToBag({next})

\* processCommand returns reply
Returned(call, reply) == [call EXCEPT !.pc = "returned", !.reply = reply]

\* getUserWallet has returned wallet to the invocation
Looked(call, wallet) == [call EXCEPT !.lookups = Append(@, wallet)]

\* processCommand awaits the answer of the endpoint
Awaiting(call, pc, endpoint) == [call EXCEPT !.pc = pc, !.log = Append(@, endpoint)]

\* a call of processCommand with a wallet command: it runs to its first
\* await, or to its return
LedgerBegin(text, platform, sender) ==
  LET p == LedgerParsed[text]
      call == [pc |-> "begin", text |-> text, platform |-> platform, sender |-> sender,
               log |-> <<>>, lookups |-> <<>>, balance |-> "", transfer |-> "",
               rejection |-> "", created |-> {}, address |-> "", reply |-> ""]
  IN  /\ p.command \in LedgerCommands \cup {""}
      /\ ledgerCalls' = ledgerCalls (+) SetToBag({
           IF p.command = "" THEN Returned(call, ReplyNoCommand)
           ELSE IF p.command \in {"send", "tip"}
           THEN IF SendFormatInvalid(p.recipientTag, p.amount)
                THEN Returned(call, ReplyInvalidFormat)
                ELSE Awaiting(call, "sendWallet", "getUserWallet")
           ELSE IF p.command = "balance" THEN Awaiting(call, "balanceWallet", "getUserWallet")
           ELSE IF p.command = "address" THEN Awaiting(call, "addressWallet", "getUserWallet")
           ELSE IF p.command = "register" THEN Awaiting(call, "registerWallet", "getUserWallet")
           ELSE IF p.walletAddress = "" THEN Returned(call, ReplyConnectFormat)
           ELSE IF ~IsBase58Address(p.walletAddress) THEN Returned(call, ReplyInvalidAddress)
           ELSE Awaiting(call, "connectWallet", "getUserWallet")})
      /\ UNCHANGED <<exportVars, remoteWallets>>

\* the lookup of the sender's wallet in the send branch returns: without a
\* wallet the reply is ReplyConnectFirst, with one executeTransaction checks
\* its parameters and looks the wallet up again
SendWalletLookupReturns(call, reachable) ==
  LET p == LedgerParsed[call.text]
      senderWallet == GetUserWallet(call.sender, call.platform, remoteWallets, reachable)
      seen == Looked(call, senderWallet)
      inputError == TransactionInputError(call.sender, p.recipientUsername, p.amount)
  IN  /\ call.pc = "sendWallet"
      /\ LedgerStep(call,
           IF NoWallet(senderWallet) THEN Returned(seen, ReplyConnectFirst)
           ELSE IF inputError # ""
           THEN Returned(seen, SendErrorReply(p.token, OuterCatch(NewError(inputError))))
           ELSE Awaiting(seen, "txWallet", "getUserWallet"))
      /\ UNCHANGED <<exportVars, remoteWallets>>

\* the lookup inside executeTransaction returns: without a wallet it throws;
\* for SOL it asks for the balance; for another token it resolves the symbol
\* and requests the token transfer
TxWalletLookupReturns(call, reachable) ==
  LET p == LedgerParsed[call.text]
      senderWallet == GetUserWallet(call.sender, call.platform, remoteWallets, reachable)
      seen == Looked(call, senderWallet)
  IN  /\ call.pc = "txWallet"
      /\ LedgerStep(call,
           IF NoWallet(senderWallet)
           THEN Returned(seen, SendErrorReply(p.token,
                                 OuterCatch(NewError(NoWalletFoundMessage(call.sender)))))
           ELSE IF ToUpperCase(p.token) = "SOL" THEN Awaiting(seen, "txBalance", "getBalance")
           ELSE IF ~TokenKnown(p.token)
           THEN Returned(seen, SendErrorReply(p.token,
                                 TransactionError(NewError(TokenNotSupportedMessage(p.token)),
                                                  p.token)))
           ELSE Awaiting(seen, "txTransfer", "sendTokenToUser"))
      /\ UNCHANGED <<exportVars, remoteWallets>>

\* the SOL branch of executeTransaction after getWalletBalance returned or
\* threw: a failed query and a short balance throw, a sufficient balance goes
\* on to the transfer; reply is what processCommand returns for the throw
BalanceCheck(p, outcome) ==
  LET senderBalance == ParseFloat(outcome.text)
      requiredAmount == RequiredAmount(p.amount)
      failure == IF outcome.kind = "unparsable" THEN "Could not parse balance from response"
                 ELSE TransportError.message
  IN  IF outcome.kind # "ok"
      THEN [next |-> "throw",
            reply |-> SendErrorReply(p.token,
                        TransactionError(NewError("Failed to get balance: " \o failure),
                                         p.token))]
      ELSE IF BalanceShort(senderBalance, requiredAmount)
      THEN [next |-> "throw",
            reply |-> SendErrorReply(p.token,
                        TransactionError(
                          NewError(InsufficientFundsMessage(senderBalance, requiredAmount)),
                          p.token))]
      ELSE [next |-> "transfer", reply |-> ""]

\* BalanceCheck, evaluated once for each send text and each answer
BalanceChecks ==
  [text \in {t \in LedgerTexts : LedgerParsed[t].command \in {"send", "tip"}} |->
     [outcome \in BalanceOutcomes |-> BalanceCheck(LedgerParsed[text], outcome)] @@ <<>>]
    @@ <<>>

\* getWalletBalance returns or throws: a short balance throws the
\* insufficient-funds error, a sufficient one requests the SOL transfer
BalanceReturns(call, outcome) ==
  LET d == BalanceChecks[call.text][outcome]
      seen == IF outcome.kind = "ok" THEN [call EXCEPT !.balance = outcome.text] ELSE call
  IN  /\ call.pc = "txBalance"
      /\ LedgerStep(call,
           IF d.next = "throw" THEN Returned(seen, d.reply)
           ELSE Awaiting(seen, "txTransfer", "sendSolToUser"))
      /\ UNCHANGED <<exportVars, remoteWallets>>

\* a failed request that is sent once more
TransferFailedRetries(call, reply) == Awaiting(call, "txTransfer", call.log[Len(call.log)])

\* the transfer request failed: the catches of executeTransaction rethrow and
\* the catch of the send branch returns the reply
TransferFailed(call, reply) == Returned(call, reply)

\* the transfer request returns or fails: on success the service has created
\* the recipient's wallet when there was none and says so in its text
TransferReturns(call, outcome) ==
  LET p == LedgerParsed[call.text]
      recipient == <<call.platform, p.recipientUsername>>
      created == recipient \notin DOMAIN remoteWallets
      result == TransferResult(TransferResponseText(created, outcome.signed))
  IN  /\ call.pc = "txTransfer"
      /\ IF outcome.kind = "ok"
         THEN /\ remoteWallets' =
                   IF created THEN MapSet(remoteWallets, recipient, "CustodialA")
                   ELSE remoteWallets
              /\ LedgerStep(call,
                   Returned([call EXCEPT !.transfer = "ok",
                                         !.created = IF created THEN {recipient} ELSE {}],
                            ReplySent(p.amount, p.token, p.recipientUsername, result)))
         ELSE /\ UNCHANGED remoteWallets
              /\ LedgerStep(call,
                   TransferFailed([call EXCEPT !.transfer = outcome.kind,
                                               !.rejection = outcome.error.dataMessage],
                                  SendErrorReply(p.token,
                                                 TransactionError(outcome.error, p.token))))
      /\ UNCHANGED exportVars

\* the lookup of the balance branch returns: without a wallet the reply is
\* ReplyConnectFirst, with one getWalletBalance is called
BalanceWalletLookupReturns(call, reachable) ==
  LET userWallet == GetUserWallet(call.sender, call.platform, remoteWallets, reachable)
      seen == Looked(call, userWallet)
  IN  /\ call.pc = "balanceWallet"
      /\ LedgerStep(call,
           IF NoWallet(userWallet) THEN Returned(seen, ReplyConnectFirst)
           ELSE Awaiting(seen, "balanceQuery", "getBalance"))
      /\ UNCHANGED <<exportVars, remoteWallets>>

\* getWalletBalance returns or throws in the balance branch
BalanceQueryReturns(call, outcome) ==
  LET failure == IF outcome.kind = "unparsable" THEN "Could not parse balance from response"
                 ELSE TransportError.message
  IN  /\ call.pc = "balanceQuery"
      /\ LedgerStep(call,
           IF outcome.kind = "ok"
           THEN Returned([call EXCEPT !.balance = outcome.text],
                         ReplyBalance(ParseFloat(outcome.text)))
           ELSE Returned(call, ReplyBalanceFailed("Failed to get balance: " \o failure)))
      /\ UNCHANGED <<exportVars, remoteWallets>>

\* the lookup of the address branch returns
AddressWalletLookupReturns(call, reachable) ==
  LET userWallet == GetUserWallet(call.sender, call.platform, remoteWallets, reachable)
      seen == Looked(call, userWallet)
  IN  /\ call.pc = "addressWallet"
      /\ LedgerStep(call,
           IF NoWallet(userWallet) THEN Returned(seen, ReplyConnectFirst)
           ELSE Returned(seen, ReplyAddress(userWallet)))
      /\ UNCHANGED <<exportVars, remoteWallets>>

\* a test that finds no identity registered
AlreadyRegisteredNever(existingWallet) == FALSE

\* if (existingWallet)
AlreadyRegistered(existingWallet) == ~NoWallet(existingWallet)

\* the lookup of the register branch returns: with a wallet the reply
\* carries its address, without one getOrCreateUserWallet is called
RegisterWalletLookupReturns(call, reachable) ==
  LET existingWallet == GetUserWallet(call.sender, call.platform, remoteWallets, reachable)
      seen == Looked(call, existingWallet)
  IN  /\ call.pc = "registerWallet"
      /\ LedgerStep(call,
           IF AlreadyRegistered(existingWallet)
           THEN Returned(seen, ReplyAlreadyRegistered(existingWallet))
           ELSE Awaiting(seen, "registerCreate", "getOrCreateUserWallet"))
      /\ UNCHANGED <<exportVars, remoteWallets>>

\* a catch that lets the error escape processCommand
RegisterCatchRethrows(call, message) == [call EXCEPT !.pc = "rejected"]

\* the catch of the register branch
RegisterCatch(call, message) == Returned(call, ReplyRegisterFailed(message))

\* getOrCreateUserWallet returns or throws: the service answers with the
\* wallet of the identity, created with the public key fresh when there was none
RegisterCreateReturns(call, outcome, fresh) ==
  LET id == <<call.platform, call.sender>>
      created == id \notin DOMAIN remoteWallets
      newWalletAddress == IF created THEN fresh ELSE remoteWallets[id]
  IN  /\ call.pc = "registerCreate"
      /\ IF outcome = "success"
         THEN /\ remoteWallets' = MapSet(remoteWallets, id, newWalletAddress)
              /\ LedgerStep(call,
                   Returned([call EXCEPT !.created = IF created THEN {id} ELSE {},
                                         !.address = newWalletAddress],
                            ReplyWelcome(newWalletAddress)))
         ELSE /\ UNCHANGED remoteWallets
              /\ LedgerStep(call,
                   RegisterCatch(call,
                     IF outcome = "invalid"
                     THEN "Failed to create wallet: Invalid response from API"
                     ELSE TransportError.message))
      /\ UNCHANGED exportVars

\* the lookup of the connect branch returns: with a wallet the reply is
\* ReplyAlreadyConnected, without one linkUserWallet is called
ConnectWalletLookupReturns(call, reachable) ==
  LET existingWallet == GetUserWallet(call.sender, call.platform, remoteWallets, reachable)
      seen == Looked(call, existingWallet)
  IN  /\ call.pc = "connectWallet"
      /\ LedgerStep(call,
           IF ~NoWallet(existingWallet) THEN Returned(seen, ReplyAlreadyConnected(existingWallet))
           ELSE Awaiting(seen, "connectLink", "linkUserWallet"))
      /\ UNCHANGED <<exportVars, remoteWallets>>

\* linkUserWallet returns true, or false (a status that is not 'success', or
\* a failed request, which its catch turns into false)
ConnectLinkReturns(call, outcome) ==
  LET p == LedgerParsed[call.text]
      id == <<call.platform, call.sender>>
  IN  /\ call.pc = "connectLink"
      /\ IF outcome = "success" /\ LinkAccepted(remoteWallets, id)
         THEN /\ remoteWallets' = MapSet(remoteWallets, id, p.walletAddress)
              /\ LedgerStep(call,
                   Returned([call EXCEPT !.address = p.walletAddress],
                            ReplyConnected(p.walletAddress, call.platform)))
         ELSE /\ UNCHANGED remoteWallets
              /\ LedgerStep(call, Returned(call, ReplyConnectFailed))
      /\ UNCHANGED exportVars

\* the bot sends the reply processCommand returned
ReplyDelivered(call) ==
  /\ call.pc = "returned"
  /\ ledgerCalls' = ledgerCalls (-) SetToBag({call})
  /\ UNCHANGED <<exportVars, remoteWallets>>

(***************************************************************************)
(* The Twitter bot                                                         *)
(***************************************************************************)
\* number of runs of checkMentions: the initial check and the interval
MaxChecks == 2

\* for each tweet, whether processCommand takes its text for a transfer
IsTransfer == [i \in 1..Len(Timeline) |-> Normalize(Timeline[i].text).command \in {"send", "tip"}]
                @@ <<>>

\* the tweets that have an id, by their place in Timeline
Tweets == {i \in 1..Len(Timeline) : Timeline[i].id # ""}

\* the variables of the command processor
processorVars == <<privateKeyVerificationCodes, expiryTimers, inflight, remoteWallets,
                   keyMessages, challenges, liveIssue, ledgerCalls>>

\* somebody posts a tweet that mentions the bot
TweetPosted ==
  /\ twitter.posted < Len(Timeline)
  /\ twitter' = [twitter EXCEPT !.posted = @ + 1]
  /\ UNCHANGED processorVars

\* the runs after run i went on with the mentions rest: a run whose loop is
\* over returns
RunsAfter(runs, i, rest) ==
  IF rest = <<>>
  THEN SubSeq(runs, 1, i - 1) \o SubSeq(runs, i + 1, Len(runs))
  ELSE [runs EXCEPT ![i] = [mentions |-> rest, awaiting |-> 0]]

\* checkMentions up to its loop: scraper.me() and the search are answered and
\* mentions holds what the search returned, or one of them fails and the run
\* is over
CheckMentions(answered) ==
  LET mentions == [i \in 1..twitter.posted |-> i]
  IN  [twitter EXCEPT !.checks = @ + 1,
                      !.runs = IF answered /\ mentions # <<>>
                               THEN Append(@, [mentions |-> mentions, awaiting |-> 0])
                               ELSE @]

\* start(): the interval is set and the initial check runs
Start(answered) ==
  /\ ~twitter.started
  /\ twitter' = [CheckMentions(answered) EXCEPT !.started = TRUE]
  /\ UNCHANGED processorVars

\* the interval fires: checkMentions runs, whether or not an earlier run is
\* over
IntervalFires(answered) ==
  /\ twitter.started
  /\ twitter.checks < MaxChecks
  /\ twitter' = CheckMentions(answered)
  /\ UNCHANGED processorVars

\* a mention the loop passes over: without id or username, or of the bot
Skipped(mention) ==
  mention.id = "" \/ mention.username = "" \/ mention.username = TWITTER_BOT_USERNAME

\* the loop of run i takes its next mention: one it passes over, or one it
\* hands to processCommand, which requests a transfer or not and returns
MentionTaken(i, requested) ==
  LET run == twitter.runs[i]
      m == Head(run.mentions)
  IN  /\ run.awaiting = 0
      /\ twitter' =
           IF Skipped(Timeline[m])
           THEN [twitter EXCEPT !.runs = RunsAfter(@, i, Tail(run.mentions))]
           ELSE [twitter EXCEPT
                   !.runs[i].awaiting = m,
                   !.processed[m] = @ + 1,
                   !.transfers[m] = IF IsTransfer[m] /\ requested THEN @ + 1 ELSE @]
      /\ UNCHANGED processorVars

\* scraper.sendTweet(response, mention.id) resolves and the loop goes on, or
\* it throws and the catch of checkMentions ends the run
ReplyTweeted(i, sent) ==
  LET run == twitter.runs[i]
  IN  /\ run.awaiting # 0
      /\ twitter' =
           IF sent
           THEN [twitter EXCEPT !.replies[run.awaiting] = @ + 1,
                                !.runs = RunsAfter(@, i, Tail(run.mentions))]
           ELSE [twitter EXCEPT !.runs = RunsAfter(@, i, <<>>)]
      /\ UNCHANGED processorVars

(***************************************************************************)
(* Specifications                                                          *)
(***************************************************************************)
IssuableCodes == RandomInt(100000, 999999)

\* the command processor under arbitrary callers
Next ==
  \/ \E text \in Texts, platform \in Platforms, sender \in Senders :
       ProcessCommand(text, platform, sender)
  \/ \E call \in Suspended, reachable \in BOOLEAN : VerifyWalletLookupReturns(call, reachable)
  \/ \E call \in Suspended, outcome \in ExportOutcomes : ExportReturns(call, outcome, TRUE)
  \/ \E call \in Suspended, reachable \in BOOLEAN, n \in IssuableCodes :
       IssueWalletLookupReturns(call, reachable, n)
  \/ ExpiryTimerFires

Spec == Init /\ [][Next]_vars

\* the command processor behind the Telegram bot
NextTelegram ==
  \/ \E raw \in Texts, chat \in ChatTypes, sender \in Senders : TelegramText(raw, chat, sender)
  \/ \E raw \in Texts, chat \in ChatTypes, sender \in Senders : TelegramMention(raw, chat, sender)
  \/ \E cmd \in CommandHandlers, raw \in Texts, chat \in ChatTypes, sender \in Senders :
       TelegramCommand(cmd, raw, chat, sender)
  \/ \E raw \in Texts, chat \in ChatTypes, sender \in Senders : TelegramConfirm(raw, chat, sender)
  \/ \E call \in Suspended, reachable \in BOOLEAN : VerifyWalletLookupReturns(call, reachable)
  \/ \E call \in Suspended, outcome \in ExportOutcomes, sent \in BOOLEAN :
       ExportReturns(call, outcome, sent)
  \/ \E call \in Suspended, reachable \in BOOLEAN, n \in IssuableCodes :
       IssueWalletLookupReturns(call, reachable, n)
  \/ ExpiryTimerFires
  \/ \E deletedOk \in BOOLEAN, noticeOk \in BOOLEAN : SelfDestructTimerFires(deletedOk, noticeOk)

SpecTelegram == Init /\ [][NextTelegram]_vars

\* the command processor in a process that keeps running: the event loop
\* runs the callback of every timer that is due
SpecExpiry == Spec /\ WF_vars(ExpiryTimerFires)

\* the wallet commands under arbitrary callers
NextLedger ==
  \/ \E text \in LedgerTexts, platform \in LedgerPlatforms, sender \in Senders :
       BagCardinality(ledgerCalls) < MaxLedgerInFlight /\ LedgerBegin(text, platform, sender)
  \/ \E call \in LedgerInvocations, reachable \in BOOLEAN :
       BalanceWalletLookupReturns(call, reachable)
  \/ \E call \in LedgerInvocations, outcome \in BalanceOutcomes :
       BalanceQueryReturns(call, outcome)
  \/ \E call \in LedgerInvocations, reachable \in BOOLEAN :
       AddressWalletLookupReturns(call, reachable)
  \/ \E call \in LedgerInvocations, reachable \in BOOLEAN :
       SendWalletLookupReturns(call, reachable)
  \/ \E call \in LedgerInvocations, reachable \in BOOLEAN : TxWalletLookupReturns(call, reachable)
  \/ \E call \in LedgerInvocations, outcome \in BalanceOutcomes : BalanceReturns(call, outcome)
  \/ \E call \in LedgerInvocations, outcome \in TransferOutcomes : TransferReturns(call, outcome)
  \/ \E call \in LedgerInvocations, reachable \in BOOLEAN :
       RegisterWalletLookupReturns(call, reachable)
  \/ \E call \in LedgerInvocations, outcome \in WalletOutcomes, fresh \in CustodialAddresses :
       RegisterCreateReturns(call, outcome, fresh)
  \/ \E call \in LedgerInvocations, reachable \in BOOLEAN :
       ConnectWalletLookupReturns(call, reachable)
  \/ \E call \in LedgerInvocations, outcome \in WalletOutcomes : ConnectLinkReturns(call, outcome)
  \/ \E call \in LedgerInvocations : ReplyDelivered(call)

SpecLedger == InitLedger /\ [][NextLedger]_vars

\* the texts of an export and of a transfer
SerialTexts == {"export-privatekey", "export-privatekey 100000", "export-privatekey 100001"}
SerialSends == {"@tw send @bob 2 SOL", "Send @bob 2 usdc"}

\* no invocation is in progress
Idle == inflight = EmptyBag /\ ledgerCalls = EmptyBag

\* exports on telegram and transfers on discord, one invocation after the
\* other, by senders that have a wallet
NextSerial ==
  \/ \E text \in SerialTexts, sender \in Senders :
       Idle /\ ProcessCommand(text, "telegram", sender)
  \/ \E text \in SerialSends, platform \in LedgerPlatforms, sender \in Senders :
       Idle /\ LedgerBegin(text, platform, sender)
  \/ \E call \in Suspended, reachable \in BOOLEAN : VerifyWalletLookupReturns(call, reachable)
  \/ \E call \in Suspended, outcome \in ExportOutcomes : ExportReturns(call, outcome, TRUE)
  \/ \E call \in Suspended, reachable \in BOOLEAN, n \in IssuableCodes :
       IssueWalletLookupReturns(call, reachable, n)
  \/ ExpiryTimerFires
  \/ \E call \in LedgerInvocations, reachable \in BOOLEAN :
       SendWalletLookupReturns(call, reachable)
  \/ \E call \in LedgerInvocations, reachable \in BOOLEAN : TxWalletLookupReturns(call, reachable)
  \/ \E call \in LedgerInvocations, outcome \in BalanceOutcomes : BalanceReturns(call, outcome)
  \/ \E call \in LedgerInvocations, outcome \in TransferOutcomes : TransferReturns(call, outcome)
  \/ \E call \in LedgerInvocations : ReplyDelivered(call)

SpecSerial == Init /\ [][NextSerial]_vars

\* number of register and connect commands that may be in progress together
MaxRaceInFlight == 2

\* the texts of a register and of a connect
RaceTexts == {"register", "connect 4Nd1mBQtrMJVYVfKf2PJy9NZUZdTAsp7"}

\* register and connect commands that overlap: the handlers of the bots do
\* not wait for one message before they take the next
NextRace ==
  \/ \E text \in RaceTexts, platform \in LedgerPlatforms, sender \in Senders :
       BagCardinality(ledgerCalls) < MaxRaceInFlight /\ LedgerBegin(text, platform, sender)
  \/ \E call \in LedgerInvocations, reachable \in BOOLEAN :
       RegisterWalletLookupReturns(call, reachable)
  \/ \E call \in LedgerInvocations, outcome \in WalletOutcomes, fresh \in CustodialAddresses :
       RegisterCreateReturns(call, outcome, fresh)
  \/ \E call \in LedgerInvocations, reachable \in BOOLEAN :
       ConnectWalletLookupReturns(call, reachable)
  \/ \E call \in LedgerInvocations, outcome \in WalletOutcomes : ConnectLinkReturns(call, outcome)
  \/ \E call \in LedgerInvocations : ReplyDelivered(call)

SpecRace == InitLedger /\ [][NextRace]_vars

\* the Twitter bot
NextTwitter ==
  \/ TweetPosted
  \/ \E answered \in BOOLEAN : Start(answered)
  \/ \E answered \in BOOLEAN : IntervalFires(answered)
  \/ \E i \in 1..Len(twitter.runs), requested \in BOOLEAN : MentionTaken(i, requested)
  \/ \E i \in 1..Len(twitter.runs), sent \in BOOLEAN : ReplyTweeted(i, sent)

SpecTwitter == Init /\ [][NextTwitter]_vars

\* a remote call awaited by a wallet command returns or throws
LedgerResponse ==
  \E call \in LedgerInvocations :
    \/ \E reachable \in BOOLEAN :
         \/ SendWalletLookupReturns(call, reachable)
         \/ TxWalletLookupReturns(call, reachable)
         \/ BalanceWalletLookupReturns(call, reachable)
         \/ AddressWalletLookupReturns(call, reachable)
         \/ RegisterWalletLookupReturns(call, reachable)
         \/ ConnectWalletLookupReturns(call, reachable)
    \/ \E outcome \in BalanceOutcomes :
         BalanceReturns(call, outcome) \/ BalanceQueryReturns(call, outcome)
    \/ \E outcome \in TransferOutcomes : TransferReturns(call, outcome)
    \/ \E outcome \in WalletOutcomes, fresh \in CustodialAddresses :
         RegisterCreateReturns(call, outcome, fresh)
    \/ \E outcome \in WalletOutcomes : ConnectLinkReturns(call, outcome)

\* the wallet commands called one after the other: an invocation shares no
\* lock with another, so its progress does not depend on the others
NextLedgerSerial ==
  \/ \E text \in LedgerTexts, platform \in LedgerPlatforms, sender \in Senders :
       ledgerCalls = EmptyBag /\ LedgerBegin(text, platform, sender)
  \/ LedgerResponse
  \/ \E call \in LedgerInvocations : ReplyDelivered(call)

\* the wallet commands when every remote call terminates (the HTTP client
\* has a timeout of 10 s, so each request ends with an answer or an error)
SpecLedgerLive == InitLedger /\ [][NextLedgerSerial]_vars /\ WF_vars(LedgerResponse)



(***************************************************************************)
(* Properties                                                              *)
(***************************************************************************)
\* the texts that are a verification attempt with a given code
Attempts(code) ==
  {t \in ProcessedTexts :
     Parsed[t].withArg /\ Parsed[t].sixDigits /\ Parsed[t].providedCode = code}

AllAttempts == {t \in ProcessedTexts : Parsed[t].withArg /\ Parsed[t].sixDigits}

\* what processCommand(t, 'telegram', s) does in the current state
Now(t, s) == Route(Parsed[t], "telegram", s, privateKeyVerificationCodes)

\* C1: once a verification has matched the code of the challenge issued last
\* for a sender, every later 'export-privatekey <code>' with that code returns
\* the 'expired or not found' reply at once, without a call of
\* exportWalletPrivateKey, as long as no new challenge is issued; the outcome
\* of the first call's export does not matter.
C1_SingleUse ==
  \A s \in Senders :
    LET L == LastIssue(RegistryKey("telegram", s))
    IN  (L # 0 /\ challenges[L].matches > 0) =>
          \A t \in Attempts(challenges[L].code) :
            Now(t, s).next = "return" /\ Now(t, s).reply = ReplyExpired

\* a matched challenge whose export threw, with no newer challenge
C1_Witness ==
  \E s \in Senders :
    LET L == LastIssue(RegistryKey("telegram", s))
    IN  /\ L # 0 /\ challenges[L].matches > 0 /\ challenges[L].outcome = "throw"
        /\ Attempts(challenges[L].code) # {}

\* C2: an invocation that has called exportWalletPrivateKey supplied a
\* six-digit argument equal to the code stored for its (platform, sender) key
\* when it checked, and the entry it matched is no longer in the registry.
C2_ExportOnlyAfterMatch ==
  \A call \in Suspended :
    call.pc = "exporting" =>
      LET key == RegistryKey(call.platform, call.sender)
      IN  /\ call.exportCalls = 1
          /\ call.matched # 0
          /\ IsSixDigits(call.providedCode)
          /\ call.providedCode = call.expectedCode
          /\ challenges[call.matched].key = key
          /\ challenges[call.matched].code = call.providedCode
          /\ MapHas(liveIssue, key) => liveIssue[key] # call.matched

\* an export in progress while a newer challenge is already stored for the key
C2_Witness ==
  \E call \in Suspended :
    /\ call.pc = "exporting"
    /\ MapHas(privateKeyVerificationCodes, RegistryKey(call.platform, call.sender))

\* C3: a challenge replaced by a later one with a different code cannot be
\* verified: an attempt with its code returns at once, with the invalid-code
\* reply while the later challenge is stored (the not-found reply once it is
\* gone), and an attempt that does match carries the code issued last.
C3_SupersededCodeFails ==
  \A s \in Senders :
    LET key == RegistryKey("telegram", s)
        L == LastIssue(key)
    IN  /\ \A i \in 1..Len(challenges) :
             ( /\ challenges[i].key = key
               /\ challenges[i].status = "superseded"
               /\ challenges[i].code # challenges[L].code ) =>
               \A t \in Attempts(challenges[i].code) :
                 /\ Now(t, s).next = "return"
                 /\ Now(t, s).reply = IF MapHas(privateKeyVerificationCodes, key)
                                      THEN ReplyInvalidCode ELSE ReplyExpired
        /\ \A t \in AllAttempts :
             Now(t, s).next = "verifyWallet" =>
               L # 0 /\ Parsed[t].providedCode = challenges[L].code

\* a replaced challenge while its successor, with another code, is stored
C3_Witness ==
  \E s \in Senders :
    LET key == RegistryKey("telegram", s)
        L == LastIssue(key)
    IN  /\ MapHas(privateKeyVerificationCodes, key)
        /\ \E i \in 1..Len(challenges) :
             /\ challenges[i].key = key /\ challenges[i].status = "superseded"
             /\ challenges[i].code # challenges[L].code
             /\ Attempts(challenges[i].code) # {}

\* C4: once the expiry timer of the challenge issued last for a sender has
\* fired, an attempt with that challenge's code returns at once with the
\* 'expired or not found' reply, the reply given when the registry is empty.
C4_ExpiredIsNotFound ==
  \A s \in Senders :
    LET L == LastIssue(RegistryKey("telegram", s))
    IN  (L # 0 /\ challenges[L].fired) =>
          \A t \in Attempts(challenges[L].code) :
            /\ Now(t, s).next = "return"
            /\ Now(t, s).reply = ReplyExpired
            /\ Now(t, s).reply = Route(Parsed[t], "telegram", s, EmptyMap).reply

\* a challenge that its own timer removed, never matched
C4_Witness ==
  \E s \in Senders :
    LET L == LastIssue(RegistryKey("telegram", s))
    IN  /\ L # 0 /\ challenges[L].fired /\ challenges[L].status = "expired"
        /\ challenges[L].matches = 0
        /\ Attempts(challenges[L].code) # {}

\* C5: a challenge that was neither consumed nor superseded, and whose own
\* expiry timer has not fired, is in the registry with its code (the timer of
\* another challenge does not remove it).
C5_TimerRemovesOnlyItsChallenge ==
  \A i \in 1..Len(challenges) :
    (challenges[i].status \notin {"consumed", "superseded"} /\ ~challenges[i].fired) =>
      /\ MapHas(privateKeyVerificationCodes, challenges[i].key)
      /\ privateKeyVerificationCodes[challenges[i].key] = challenges[i].code
      /\ liveIssue[challenges[i].key] = i

\* C6: an export request that carries an argument which is not six digits
\* leaves the challenge stored for the sender as it is: no challenge issued
\* by a request with an argument replaces a stored one.
C6_RejectionLeavesChallenge ==
  \A i \in 1..Len(challenges) : challenges[i].withArg => challenges[i].replaced = 0

\* C7: while an invocation that matched the code of the challenge issued last
\* is suspended, every other attempt with that code gets the 'expired or not
\* found' reply; no challenge is matched by two invocations.
C7_OneConcurrentWinner ==
  /\ \A i \in 1..Len(challenges) : challenges[i].matches <= 1
  /\ \A call \in Suspended :
       call.matched # 0 =>
         /\ inflight[call] = 1
         /\ \A other \in Suspended \ {call} : other.matched # call.matched
         /\ call.matched = LastIssue(RegistryKey(call.platform, call.sender)) =>
              \A t \in Attempts(call.providedCode) :
                Now(t, call.sender).next = "return" /\ Now(t, call.sender).reply = ReplyExpired

\* an invocation suspended at its wallet lookup after it matched the code
\* of the challenge issued last
C7_Witness ==
  \E call \in Suspended :
    /\ call.pc = "verifyWallet"
    /\ call.matched = LastIssue(RegistryKey(call.platform, call.sender))
    /\ Attempts(call.providedCode) # {}

\* C8: no message received in a chat that is not private causes a challenge to
\* be issued or exportWalletPrivateKey to be called.
C8_NoExportOutsidePrivateChat ==
  /\ \A i \in 1..Len(challenges) : challenges[i].chat = "private"
  /\ \A call \in Suspended : call.pc = "exporting" => call.chat = "private"

\* C9: processCommand on twitter or discord returns at once, so it neither
\* writes the registry nor calls exportWalletPrivateKey; every key of the
\* registry is a telegram key whose challenge was issued after a wallet
\* lookup that returned a wallet.
C9_OnlyTelegramWithWallet ==
  /\ \A t \in ProcessedTexts, p \in Platforms \ {"telegram"}, s \in Senders :
       Route(Parsed[t], p, s, privateKeyVerificationCodes).next = "return"
  /\ \A call \in Suspended : call.platform = "telegram"
  /\ \A k \in DOMAIN privateKeyVerificationCodes :
       /\ k \in {RegistryKey("telegram", s) : s \in Senders}
       /\ challenges[liveIssue[k]].platform = "telegram"
       /\ challenges[liveIssue[k]].wallet # ""

\* a stored challenge while export requests can arrive on the other platforms
C9_Witness ==
  /\ DOMAIN privateKeyVerificationCodes # {}
  /\ \E t \in Texts : Parsed[t].command = ExportKeyword /\ ~Parsed[t].withArg
  /\ \E t \in Texts : Parsed[t].withArg /\ Parsed[t].sixDigits

\* C10: every delivered Telegram message that carries an exported key has its
\* deletion scheduled; the deletion is attempted once, and the notice is sent
\* only after a deletion that succeeded.
C10_KeyRepliesSelfDestruct ==
  \A i \in 1..Len(keyMessages) :
    /\ keyMessages[i].scheduled
    /\ keyMessages[i].attempts <= 1
    /\ keyMessages[i].fired => keyMessages[i].attempts = 1
    /\ keyMessages[i].notice => keyMessages[i].deleted

(***************************************************************************)
(* Properties of the wallet commands                                       *)
(***************************************************************************)
\* the invocations of send and tip, of register and of connect
SendCalls == {c \in LedgerInvocations : LedgerParsed[c.text].command \in {"send", "tip"}}
RegisterCalls == {c \in LedgerInvocations : LedgerParsed[c.text].command = "register"}
ConnectCalls == {c \in LedgerInvocations : LedgerParsed[c.text].command = "connect"}

\* the endpoints of the Ledger Client an invocation has requested
Requests(call, endpoints) == {i \in 1..Len(call.log) : call.log[i] \in endpoints}
TransferEndpoints == {"sendSolToUser", "sendTokenToUser"}
CreationEndpoints == {"getOrCreateUserWallet", "linkUserWallet"}

\* an amount argument that is missing, not a number, not finite, zero or negative
AmountRejectable(amountText) ==
  LET x == ParseFloat(amountText)
  IN  amountText = "" \/ x.nan \/ x.inf # 0 \/ x.micro <= 0

\* C11: a send or tip whose amount argument is missing, non-numeric,
\* non-finite, zero or negative has returned the invalid-format reply and has
\* made no request to the Ledger Client.
C11_InvalidAmountNoLedgerCall ==
  \A c \in SendCalls :
    AmountRejectable(LedgerParsed[c.text].amountText) =>
      c.log = <<>> /\ c.pc = "returned" /\ c.reply = ReplyInvalidFormat

\* the balance written balanceText is less than amount + 0.000005
ShortOf(balanceText, amount) ==
  amount.inf > 0 \/ ParseFloat(balanceText).micro < amount.micro + FeeBufferMicro

\* C12: in a SOL send whose balance query answered less than amount +
\* 0.000005, sendSolToUser is never requested and the reply is the
\* insufficient-funds message with both values to six decimals; sendSolToUser
\* is requested only after a balance of at least amount + 0.000005.
C12_ShortBalanceNeverTransfers ==
  \A c \in SendCalls :
    LET p == LedgerParsed[c.text]
    IN  p.token = "SOL" =>
          /\ (c.balance # "" /\ ShortOf(c.balance, p.amount)) =>
               /\ Requests(c, TransferEndpoints) = {}
               /\ c.pc = "returned"
               /\ c.reply = CrossMark \o "Insufficient funds. You have "
                              \o ToFixed6(ParseFloat(c.balance)) \o " SOL but need at least "
                              \o ToFixed6(Plus(p.amount, FeeBufferMicro))
                              \o " SOL (including fees)."
          /\ Requests(c, TransferEndpoints) # {} =>
               c.balance # "" /\ ~ShortOf(c.balance, p.amount)

\* a send of 0.000001 SOL that found the balance 0.000004
C12_Witness ==
  \E c \in SendCalls :
    /\ LedgerParsed[c.text].token = "SOL" /\ LedgerParsed[c.text].amountText = "0.000001"
    /\ c.balance = "0.000004" /\ c.pc = "returned"
    /\ Includes(c.reply, "You have 0.000004 SOL but need at least 0.000006 SOL")

\* C13: a send for which a lookup of the sender's wallet returned no wallet
\* has requested neither a transfer nor a wallet creation, and its reply tells
\* the sender to connect a wallet; whatever wallet a send causes to be created
\* is the recipient's.
C13_NoWalletNoTransfer ==
  \A c \in SendCalls :
    /\ (\E i \in 1..Len(c.lookups) : c.lookups[i] = "") =>
         /\ Requests(c, TransferEndpoints \cup CreationEndpoints) = {}
         /\ c.created = {}
         /\ c.pc = "returned"
         /\ c.reply \in {ReplyConnectFirst, CrossMark \o NoWalletFoundMessage(c.sender)}
         /\ Includes(c.reply, "connect")
    /\ Requests(c, CreationEndpoints) = {}
    /\ c.created \subseteq {<<c.platform, LedgerParsed[c.text].recipientUsername>>}

\* a send that found no wallet for the sender and returned
C13_Witness ==
  \E c \in SendCalls : c.lookups = <<"">> /\ c.pc = "returned" /\ c.reply = ReplyConnectFirst

\* C14: a token send that got past the wallet lookups reports 'Unknown token'
\* if and only if the symbol is not in the token registry; a transfer request
\* that the service rejected, or that failed in transport, is not reported as
\* an unknown token.
C14_UnknownTokenOnlyForUnknownSymbol ==
  \A c \in SendCalls :
    LET p == LedgerParsed[c.text]
    IN  (c.pc = "returned" /\ p.token # "SOL" /\ Len(c.lookups) = 2 /\ c.lookups[2] # "") =>
          (Includes(c.reply, "Unknown token") <=> p.token \notin TOKEN_REGISTRY)

\* C15: a transfer that the service rejected with the insolvency pattern in
\* its message is answered with the insufficient-funds reply, never with the
\* 'Failed to send' reply.
C15_RemoteInsolvencyIsInsufficientFunds ==
  \A c \in SendCalls :
    (c.transfer = "rejected" /\ Includes(c.rejection, InsolvencyPattern)) =>
      /\ StartsWith(c.reply, CrossMark \o "Insufficient")
      /\ ~Includes(c.reply, "Failed to send")

\* C16: a well-formed send whose token symbol is not in the token registry
\* makes no request to the Ledger Client.
C16_UnsupportedTokenNoLedgerCall ==
  \A c \in SendCalls :
    LET p == LedgerParsed[c.text]
    IN  ( /\ p.recipientTag # "" /\ ~AmountRejectable(p.amountText)
          /\ p.token \notin TOKEN_REGISTRY ) => c.log = <<>>

\* C17: a register whose lookup returned a wallet has replied with that
\* address, which is the one the service holds, and has made no creation
\* request; a register whose lookup returned none makes exactly one
\* get-or-create request and replies with the address it returns, which is the
\* one the service holds from then on.
C17_RegisterCreatesAtMostOnce ==
  \A c \in RegisterCalls :
    LET id == <<c.platform, c.sender>>
        creations == Requests(c, {"getOrCreateUserWallet"})
    IN  /\ Requests(c, {"linkUserWallet"}) = {}
        /\ (c.lookups # <<>> /\ c.lookups[1] # "") =>
             /\ creations = {}
             /\ c.pc = "returned"
             /\ c.reply = ReplyAlreadyRegistered(c.lookups[1])
             /\ id \in DOMAIN remoteWallets /\ remoteWallets[id] = c.lookups[1]
        /\ (c.lookups # <<>> /\ c.lookups[1] = "") =>
             /\ Cardinality(creations) = 1
             /\ (c.pc = "returned" /\ c.address # "") =>
                  /\ c.reply = ReplyWelcome(c.address)
                  /\ id \in DOMAIN remoteWallets /\ remoteWallets[id] = c.address

\* a register repeated after the service created the wallet of the identity
C17_Witness ==
  \E c \in RegisterCalls :
    /\ c.pc = "returned" /\ c.lookups # <<>> /\ c.lookups[1] \in CustodialAddresses
    /\ c.log = <<"getUserWallet">>

\* the base58 alphabet: digits and letters without 0, I, O and l
Base58Alphabet == "123456789ABCDEFGHJKLMNPQRSTUVWXYZabcdefghijkmnopqrstuvwxyz"

WellFormedAddress(s) ==
  /\ Len(s) \in 32..44
  /\ \A i \in 1..Len(s) : \E j \in 1..Len(Base58Alphabet) : Char(Base58Alphabet, j) = Char(s, i)

\* C18: a connect with no address, or with one that is not 32 to 44
\* characters of the base58 alphabet, has returned a format error and has made
\* no request to the Ledger Client.
C18_BadAddressNoLedgerCall ==
  \A c \in ConnectCalls :
    LET walletAddress == LedgerParsed[c.text].walletAddress
    IN  ~WellFormedAddress(walletAddress) =>
          /\ c.log = <<>> /\ c.lookups = <<>>
          /\ c.pc = "returned"
          /\ c.reply = IF walletAddress = "" THEN ReplyConnectFormat ELSE ReplyInvalidAddress

\* a connect that was refused for an address one character short of 32
C18_Witness ==
  \E c \in ConnectCalls :
    /\ Len(LedgerParsed[c.text].walletAddress) = 31
    /\ \A i \in 1..31 : IsBase58Char(Char(LedgerParsed[c.text].walletAddress, i))
    /\ c.reply = ReplyInvalidAddress

\* C19: the reply of a successful send carries the notice 'A new wallet was
\* automatically created' if and only if the transfer created the recipient's
\* wallet; no other reply of send carries it.
C19_NoticeIffWalletCreated ==
  \A c \in SendCalls :
    c.pc = "returned" =>
      IF c.transfer = "ok"
      THEN /\ StartsWith(c.reply, "Successfully sent ")
           /\ Includes(c.reply, "A new wallet was automatically created") <=> c.created # {}
      ELSE ~Includes(c.reply, "A new wallet was automatically created")

\* a successful send to a recipient that had a wallet already
C19_Witness ==
  \E c \in SendCalls :
    /\ c.pc = "returned" /\ c.transfer = "ok" /\ c.created = {}
    /\ <<c.platform, LedgerParsed[c.text].recipientUsername>> \in DOMAIN remoteWallets

\* a token that contains none of the mention forms
MentionFree(w) == \A m \in MentionForms : ~Includes(w, m)

\* C20: the tokens processCommand works on are the tokens of the trimmed
\* text that contain none of the three mention forms, in their order; for
\* '@tw send @bob 2 SOL' they are send, @bob, 2, SOL.
C20_MentionsFiltered ==
  \A c \in LedgerInvocations :
    LET p == LedgerParsed[c.text]
    IN  /\ \A i \in 1..Len(p.cleanWords) : MentionFree(p.cleanWords[i])
        /\ p.cleanWords = SelectSeq(p.words, MentionFree)
        /\ c.text = "@tw send @bob 2 SOL" =>
             p.command = "send" /\ Tail(p.cleanWords) = <<"@bob", "2", "SOL">>

\* a send received on discord whose text opens with the Twitter mention
C20_Witness ==
  \E c \in LedgerInvocations :
    /\ c.text = "@tw send @bob 2 SOL" /\ c.platform # "twitter"
    /\ Len(LedgerParsed[c.text].words) = 5 /\ c.log # <<>>

(***************************************************************************)
(* Properties of the dispatch, of the codes and of the pollers             *)
(***************************************************************************)
\* the pairs of texts that differ only by a '/' before the keyword
SlashForms ==
  {pair \in Texts \X Texts :
     /\ Parsed[pair[1]].command = "/" \o Parsed[pair[2]].command
     /\ Parsed[pair[2]].command # ""
     /\ Parsed[pair[1]].providedCode = Parsed[pair[2]].providedCode}

\* C21: on every platform a text whose keyword carries a leading '/' is
\* dispatched like the same text without the slash: both reach the same
\* handler and produce the same reply.
C21_SlashFormsEquivalent ==
  \A pair \in SlashForms, platform \in Platforms, sender \in Senders :
    LET slashed == Route(Parsed[pair[1]], platform, sender, privateKeyVerificationCodes)
        bare == Route(Parsed[pair[2]], platform, sender, privateKeyVerificationCodes)
    IN  slashed.next = bare.next /\ slashed.reply = bare.reply

\* the stages at which processCommand awaits a remote call
AwaitStages ==
  {"sendWallet", "txWallet", "txBalance", "txTransfer", "balanceWallet", "balanceQuery",
   "addressWallet", "registerWallet", "registerCreate", "connectWallet", "connectLink"}

TransferFailures == {"malformed", "rejected", "transport"}
ExportFailures == {"failure", "throw"}

\* C23: an invocation has requested a transfer at most once, and one whose
\* transfer request failed has returned with that single request; an
\* invocation has called exportWalletPrivateKey at most once, and none is
\* exporting for a challenge whose export has answered.
C23_ErrorsAreTerminal ==
  /\ \A c \in LedgerInvocations :
       /\ Cardinality(Requests(c, TransferEndpoints)) <= 1
       /\ c.transfer \in TransferFailures =>
            /\ c.pc = "returned"
            /\ Cardinality(Requests(c, TransferEndpoints)) = 1
            /\ c.log[Len(c.log)] \in TransferEndpoints
  /\ \A c \in Suspended :
       /\ c.exportCalls <= 1
       /\ c.pc = "exporting" => c.exportCalls = 1 /\ challenges[c.matched].outcome = ""

\* an export has thrown, and later a send whose transfer request ended in a
\* transport error has returned after that one request
C23_Witness ==
  /\ \E i \in 1..Len(challenges) : challenges[i].outcome = "throw"
  /\ \E c \in LedgerInvocations :
       /\ c.transfer = "transport" /\ c.pc = "returned"
       /\ c.log = <<"getUserWallet", "getUserWallet", "getBalance", "sendSolToUser">>

\* the lookup of call's wallet ends without an answer of the service
LookupFails(call) ==
  \/ SendWalletLookupReturns(call, FALSE)
  \/ TxWalletLookupReturns(call, FALSE)
  \/ BalanceWalletLookupReturns(call, FALSE)
  \/ AddressWalletLookupReturns(call, FALSE)
  \/ RegisterWalletLookupReturns(call, FALSE)
  \/ ConnectWalletLookupReturns(call, FALSE)

\* the replies to a sender for whom the service knows no wallet
NoWalletReplies == {ReplyConnectFirst} \cup {CrossMark \o NoWalletFoundMessage(s) : s \in Senders}

\* C24: when a lookup of the wallet does not reach the service, the
\* invocation does not give the reply of a sender without a wallet, and a
\* register does not go on to request the creation of a wallet.
C24_FailedLookupDistinguished ==
  [][\A call \in LedgerInvocations :
       LookupFails(call) =>
         \A next \in BagToSet(ledgerCalls') :
           (next.text = call.text /\ Len(next.lookups) = Len(call.lookups) + 1) =>
             /\ next.reply \notin NoWalletReplies
             /\ next.pc # "registerCreate"]_vars

\* the codes of the challenges issued so far
IssuedCodes == {challenges[i].code : i \in 1..Len(challenges)}

\* C25: every code stored at issuance is a string of exactly six digits that
\* writes a number of 100000..999999, and every number of that range can be
\* drawn at issuance.
C25_CodesAreSixDigits ==
  /\ \A code \in IssuedCodes :
       /\ IsSixDigits(code)
       /\ \E n \in 100000..999999 : n \in CodeSamples /\ code = NumberToString(n)
  /\ \A n \in CodeSamples : n \in 100000..999999 => n \in IssuableCodes

\* C26: the recipient handle a send passes to executeTransaction is the
\* recipient tag without its first character when that is '@', and the tag
\* itself otherwise.
C26_OnlyLeadingAtRemoved ==
  \A c \in SendCalls :
    LET p == LedgerParsed[c.text]
    IN  Len(c.log) >= 2 =>
          p.recipientUsername =
            IF StartsWith(p.recipientTag, "@") THEN Substring1(p.recipientTag)
            ELSE p.recipientTag

\* the attempts on telegram that carry a six-digit code other than the one
\* stored for the sender
WrongAttempts(s) ==
  LET key == RegistryKey("telegram", s)
  IN  IF MapHas(privateKeyVerificationCodes, key)
      THEN {t \in AllAttempts : Parsed[t].providedCode # privateKeyVerificationCodes[key]}
      ELSE {}

\* C28: while a challenge is stored for a sender, an attempt with another
\* six-digit code returns the 'invalid code' reply at once, without a call of
\* the Ledger Client, and the step changes neither the registry nor anything
\* else; in every such state, whatever attempts came before, an attempt with
\* the stored code goes on to the verification.
C28_WrongCodeChangesNothing ==
  /\ [](\A s \in Senders :
          LET key == RegistryKey("telegram", s)
          IN  MapHas(privateKeyVerificationCodes, key) =>
                /\ \A t \in WrongAttempts(s) :
                     Now(t, s).next = "return" /\ Now(t, s).reply = ReplyInvalidCode
                /\ \A t \in Attempts(privateKeyVerificationCodes[key]) :
                     Now(t, s).next = "verifyWallet")
  /\ [][\A s \in Senders : \A t \in WrongAttempts(s) :
          ProcessCommand(t, "telegram", s) => UNCHANGED vars]_vars

\* the code 100000 is stored for a sender; 'export-privatekey 100001' is
\* rejected as invalid and 'export-privatekey 100000' verifies
C28_Witness ==
  \E s \in Senders :
    /\ MapHas(privateKeyVerificationCodes, RegistryKey("telegram", s))
    /\ privateKeyVerificationCodes[RegistryKey("telegram", s)] = "100000"
    /\ "export-privatekey 100001" \in WrongAttempts(s)
    /\ Now("export-privatekey 100001", s).reply = ReplyInvalidCode
    /\ Now("export-privatekey 100000", s).next = "verifyWallet"

\* the keys of the registry
RegistryKeys == {RegistryKey(platform, s) : platform \in Platforms, s \in Senders}

\* C29: when the expiry timers fire fairly, a key that has an entry in the
\* registry leads to the key having none: no entry stays for ever.
C29_EntriesAreRemoved ==
  \A key \in RegistryKeys :
    MapHas(privateKeyVerificationCodes, key) ~> ~MapHas(privateKeyVerificationCodes, key)

\* a challenge that nobody verified was removed by its timer
C29_Witness ==
  \E i \in 1..Len(challenges) :
    /\ challenges[i].status = "expired" /\ challenges[i].matches = 0
    /\ ~MapHas(privateKeyVerificationCodes, challenges[i].key)

\* the invocations in progress for an identity that have requested a link or
\* a creation, each counted as often as it is in progress
LinkOrCreateRequests(platform, sender) ==
  LET asked == {c \in LedgerInvocations :
                  /\ c.platform = platform /\ c.sender = sender
                  /\ Requests(c, CreationEndpoints) # {}}
  IN  BagCardinality([c \in asked |-> ledgerCalls[c]])

\* C30: among the register and connect commands of one identity that are in
\* progress together at most one has requested a link or a creation, and a
\* connect whose lookup found a wallet replies 'already have a connected
\* wallet' without a link request.
C30_OneLinkOrCreatePerIdentity ==
  /\ \A platform \in LedgerPlatforms, sender \in Senders :
       LinkOrCreateRequests(platform, sender) <= 1
  /\ \A c \in ConnectCalls :
       (c.lookups # <<>> /\ c.lookups[1] # "") =>
         /\ Requests(c, CreationEndpoints) = {}
         /\ c.reply = ReplyAlreadyConnected(c.lookups[1])

\* C27: over all runs of checkMentions a tweet is handed to processCommand at
\* most once, so it causes at most one transfer request and at most one reply.
C27_MentionProcessedOnce ==
  \A m \in Tweets :
    /\ twitter.processed[m] <= 1
    /\ twitter.transfers[m] <= 1
    /\ twitter.replies[m] <= 1

=============================================================================
